---- MODULE Spec2Model ----
(***************************************************************************)
(* Model of ssh_harness.contexts.backupeditandrestore: the class           *)
(* BackupEditAndRestore, its class-level registry _contexts, the helper    *)
(* _move, and the part of the file system the class touches.               *)
(*                                                                         *)
(* The file system is modelled at the inode level, because the code keeps  *)
(* a file object open on the edition file while it copies, renames and     *)
(* unlinks files by name: a name maps to an inode, an inode holds the      *)
(* content, an open file object refers to an inode (not to a name) and     *)
(* keeps a write buffer that reaches the inode when the object is          *)
(* closed.  Only the default suffix is modelled, so the three files of a   *)
(* target p are <<p,"target">>, <<p,"backup">> and <<p,"new">>.            *)
(*                                                                         *)
(* The actions accept every call the object accepts, in any state.  How a  *)
(* caller uses an editor (through the `with` statement, or by hand in any  *)
(* order) is said by the next-state relation of each specification.        *)
(***************************************************************************)
EXTENDS Integers, Sequences, FiniteSets, TLC

\* ---- bounds -------------------------------------------------------------
MaxEditors == 2        \* editor objects successfully constructed in a run
MaxWrites  == 1        \* writes made inside the `with` blocks of a run
MaxCalls   == 3        \* calls of the methods of a file object in a run

\* ---- inputs ---------------------------------------------------------------
Contexts == {"c1", "c2"}
PathSeq  == <<"p", "q", "s">>
Paths    == { PathSeq[i] : i \in 1..Len(PathSeq) }
\* the context and the file of a caller that edits a single file
OneContext == {"c1"}
OnePath    == {"p"}
\* the contexts and the files of a caller that edits two files
TwoPaths   == {"p", "q"}
Data     == {"x"}
InitContents == { <<>>, <<"a", "b">> }
\* open modes, as sequences of characters: modes that __init__ rejects and
\* modes that every interpreter opens (RegModes has the others)
ModeSet == { <<"r">>, <<"U">>, <<"r", "U">>, <<"r", "b">>,
             <<"r", "+">>, <<"a">>, <<"w">> }
\* the modes of a caller that calls the methods of the file object: those,
\* and a mode for bytes
FileModes == ModeSet \cup { <<"w", "b">> }
\* the modes of a caller that edits two files
CtxModes == { <<"a">>, <<"w">> }

Kinds  == {"target", "backup", "new"}
Names  == Paths \X Kinds
NoFile == 0
Inodes == 1..(3 * Len(PathSeq) + MaxEditors)
PathIndex(p) == CHOOSE k \in 1..Len(PathSeq) : PathSeq[k] = p

VARIABLES
  names,   \* directory: file name -> inode, NoFile when the name does not exist
  data,    \* inode -> content (a sequence of characters)
  eds,     \* the editor objects constructed so far, in construction order
  reg,     \* BackupEditAndRestore._contexts: <<context, path>> -> editor, 0 if none
  known,   \* the keys of BackupEditAndRestore._contexts
  last,    \* the last call made and how it ended
  vcs,     \* vcs_ssh: the request main was given and what it did with it
  hs,      \* ssh_harness: the test-case class and the position in its set-up
  td,      \* InThrowableTempDir: the object, the directories and the cwd
  io       \* IOCapture: the capture objects, sys.stdout / sys.stderr, the texts

vars == <<names, data, eds, reg, known, last, vcs, hs, td, io>>


\* ---- helpers --------------------------------------------------------------
Range(s) == { s[i] : i \in 1..Len(s) }
MaxOf(a, b) == IF a >= b THEN a ELSE b
MinOf(a, b) == IF a <= b THEN a ELSE b
MinOfSet(S) == CHOOSE i \in S : \A j \in S : i <= j

\* F(v), the value v being computed once
Bind(v, F(_)) == CHOOSE r \in { F(w) : w \in {v} } : TRUE

TargetName(p) == <<p, "target">>
\* (an editor that edits the target in place)
NewNameInPlace(p) == <<p, "target">>
\* self._new_path = '{}.{}'.format(path, 'new-' + suffix)
NewName(p)    == <<p, "new">>
\* self._backup_path = '{}.{}'.format(path, suffix)
BackupName(p) == <<p, "backup">>

\* os.path.isfile
IsFile(nm, n) == nm[n] # NoFile

\* what a reader of file n sees: whether it exists, and its content
FileState(nm, d, n) ==
  IF nm[n] = NoFile THEN [ex |-> FALSE, c |-> <<>>]
  ELSE [ex |-> TRUE, c |-> d[nm[n]]]

Editors == 1..Len(eds)

\* inodes that a name or an open file object still refers to
Used(nm, es) ==
  ({ nm[n] : n \in Names } \cup
   { es[e].h.ino : e \in { x \in 1..Len(es) : es[x].h.open } }) \ {NoFile}

\* the content of an inode nothing refers to any more is dropped
Clean(nm, es, d) == [ i \in Inodes |-> IF i \in Used(nm, es) THEN d[i] ELSE <<>> ]

\* ---- mode handling (BackupEditAndRestore.__init__) ------------------------
\* str.replace('U', 'r')
ReplaceU(m) == [ i \in 1..Len(m) |-> IF m[i] = "U" THEN "r" ELSE m[i] ]

\* str.replace('rr', 'r'): non-overlapping occurrences, left to right
RECURSIVE ReplaceRR(_)
ReplaceRR(m) ==
  IF Len(m) < 2 THEN m
  ELSE IF m[1] = "r" /\ m[2] = "r"
       THEN <<"r">> \o ReplaceRR(SubSeq(m, 3, Len(m)))
       ELSE <<m[1]>> \o ReplaceRR(Tail(m))

\* check_mode = (mode * 1).replace('U', 'r').replace('rr', 'r')
CheckMode(m) == ReplaceRR(ReplaceU(m))

\* if 'r' == check_mode[0] and '+' not in check_mode: raise ValueError
RejectedMode(m) == CheckMode(m)[1] = "r" /\ "+" \notin Range(CheckMode(m))

\* if mode[0] in ['a', 'r', 'U']: the edition file starts as a copy
Prepopulates(m) == m[1] \in {"a", "r", "U"}

\* ---- open(path, mode) ------------------------------------------------------
\* What the code does depends on the interpreter that runs it.  setup.py
\* declares Python 2.7, 3.3 and 3.4.  "3.4" stands for the versions of
\* Python 3 it declares, on which gettext.lgettext returns the message as a
\* str when there is no catalog and 'U' can go with '+' in a mode; "3.10"
\* stands for the later versions, up to Python 3.10, on which lgettext
\* returns bytes and 'U' cannot go with '+'.  The modules import lgettext,
\* which Python 3.11 does not have any more: they cannot be imported there.
\* The modes are sequences of the characters r, w, a, +, b, t and U.
Interpreters == {"2.7", "3.4", "3.10"}

\* `from gettext import lgettext as _`: _(message).format(...) raises
\* AttributeError when lgettext returns bytes, which have no format method
\* (ssh_harness/__init__.py, iocapture.py and backupeditandrestore.py)
MessageFails(py) == py = "3.10"

\* m without its first 'U'
DropFirstU(m) ==
  LET k == MinOfSet({ i \in 1..Len(m) : m[i] = "U" }) IN
  SubSeq(m, 1, k - 1) \o SubSeq(m, k + 1, Len(m))

\* Python 2.7 (_PyFile_SanitizeMode): the first 'U' is taken out, what is
\* left must not begin with 'w' or 'a' and is made to begin with 'r'; a mode
\* without 'U' must begin with 'r', 'w' or 'a'.  The mode fopen() is given,
\* <<>> when ValueError is raised.
SanitizedMode(m) ==
  IF "U" \in Range(m)
  THEN LET s == DropFirstU(m) IN
       IF s # <<>> /\ s[1] \in {"w", "a"} THEN <<>>
       ELSE IF s # <<>> /\ s[1] = "r" THEN s
       ELSE <<"r">> \o s
  ELSE IF m[1] \in {"r", "w", "a"} THEN m ELSE <<>>

\* Python 3 (io.open): the ways of opening the mode asks for, 'U' being one
\* more way of asking to read
OpenWays(m) ==
  { x \in {"r", "w", "a"} : x \in Range(m) \/ (x = "r" /\ "U" \in Range(m)) }

\* Python 3: ValueError for a character given twice, for 'U' with a mode
\* that writes, for 't' with 'b', and unless exactly one of reading, writing
\* and appending is asked for
InvalidMode3(py, m) ==
  \/ \E i \in 1..Len(m), j \in 1..Len(m) : i # j /\ m[i] = m[j]
  \/ {"t", "b"} \subseteq Range(m)
  \/ /\ "U" \in Range(m)
     /\ \/ Range(m) \cap {"w", "a"} # {}
        \/ (py = "3.10" /\ "+" \in Range(m))
  \/ Cardinality(OpenWays(m)) # 1

\* open() raises ValueError for the mode
InvalidOpenMode(py, m) ==
  IF py = "2.7" THEN SanitizedMode(m) = <<>> ELSE InvalidMode3(py, m)

\* how open() treats the file, for a mode it accepts: the file is created
\* or emptied ("trunc"), created or written at its end ("append"), or must
\* exist and is read and written ("update") or only read ("read")
OpenKind(py, m) ==
  LET way == IF py = "2.7" THEN SanitizedMode(m)[1]
             ELSE CHOOSE x \in OpenWays(m) : TRUE
  IN IF way = "w" THEN "trunc"
     ELSE IF way = "a" THEN "append"
     ELSE IF "+" \in Range(m) THEN "update"
     ELSE "read"

\* ---- file operations ------------------------------------------------------
\* Each operation yields the directory it leaves, whether it succeeded, and
\* the system calls it made, in order.
\* (a rename that leaves the source name in place)
RenameKeepsSource(nm, src, dst) ==
  IF nm[src] = NoFile
  THEN [names |-> nm, ok |-> FALSE, calls |-> << <<"rename", src, dst>> >>]
  ELSE [names |-> [nm EXCEPT ![dst] = nm[src]], ok |-> TRUE,
        calls |-> << <<"rename", src, dst>> >>]

\* os.rename(src, dst) on POSIX: fails only if src does not exist
Rename(nm, src, dst) ==
  IF nm[src] = NoFile
  THEN [names |-> nm, ok |-> FALSE, calls |-> << <<"rename", src, dst>> >>]
  ELSE [names |-> [nm EXCEPT ![dst] = nm[src], ![src] = NoFile], ok |-> TRUE,
        calls |-> << <<"rename", src, dst>> >>]

\* os.remove(path) / os.unlink(path): fails if path does not exist
Remove(nm, n) ==
  IF nm[n] = NoFile
  THEN [names |-> nm, ok |-> FALSE, calls |-> << <<"remove", n, n>> >>]
  ELSE [names |-> [nm EXCEPT ![n] = NoFile], ok |-> TRUE,
        calls |-> << <<"remove", n, n>> >>]

\* An operating-system call can also fail for a reason the directory does
\* not show (EACCES, EXDEV, EBUSY, a rename onto an existing name on
\* Windows): F is the set of the positions, among the calls one _move makes,
\* of the calls that fail this way.
RenameUnder(F, k, nm, src, dst) ==
  IF k \in F
  THEN [names |-> nm, ok |-> FALSE, calls |-> << <<"rename", src, dst>> >>]
  ELSE Rename(nm, src, dst)

RemoveUnder(F, k, nm, n) ==
  IF k \in F
  THEN [names |-> nm, ok |-> FALSE, calls |-> << <<"remove", n, n>> >>]
  ELSE Remove(nm, n)

\* (a _move that discards the source when it cannot move it)
MoveUnderDiscards(F, nm, src, dst) ==
  LET r1 == RenameUnder(F, 1, nm, src, dst) IN
  IF r1.ok THEN r1
  ELSE LET rm == RemoveUnder(F, 2, r1.names, dst) IN
       IF ~rm.ok THEN [rm EXCEPT !.calls = r1.calls \o @]
       ELSE LET r2 == RenameUnder(F, 3, rm.names, src, dst) IN
            [r2 EXCEPT !.calls = r1.calls \o rm.calls \o @,
                       !.names = IF r2.ok THEN @ ELSE [@ EXCEPT ![src] = NoFile]]

\* _move(src, dst): rename; on OSError remove dst and rename again; an
\* OSError of the remove or of the second rename propagates
MoveUnder(F, nm, src, dst) ==
  LET r1 == RenameUnder(F, 1, nm, src, dst) IN
  IF r1.ok THEN r1
  ELSE LET rm == RemoveUnder(F, 2, r1.names, dst) IN
       IF ~rm.ok THEN [rm EXCEPT !.calls = r1.calls \o @]
       ELSE LET r2 == RenameUnder(F, 3, rm.names, src, dst) IN
            [r2 EXCEPT !.calls = r1.calls \o rm.calls \o @]

\* _move(src, dst) when the calls fail only for what the directory shows
Move(nm, src, dst) == MoveUnder({}, nm, src, dst)

\* (a copy that makes dst another name of the file src names)
CopyFileLinks(nm, d, src, dst, fresh) ==
  [names |-> [nm EXCEPT ![dst] = nm[src]], data |-> d]

\* (a copy that creates or truncates dst and copies nothing into it)
CopyFileTruncates(nm, d, src, dst, fresh) ==
  IF nm[dst] = NoFile
  THEN [names |-> [nm EXCEPT ![dst] = fresh],
        data  |-> [d EXCEPT ![fresh] = <<>>]]
  ELSE [names |-> nm,
        data  |-> [d EXCEPT ![nm[dst]] = <<>>]]

\* shutil.copy(src, dst), src exists: dst is opened for writing (created, or
\* the existing inode truncated) and receives the content of src
CopyFile(nm, d, src, dst, fresh) ==
  IF nm[dst] = NoFile
  THEN [names |-> [nm EXCEPT ![dst] = fresh],
        data  |-> [d EXCEPT ![fresh] = d[nm[src]]]]
  ELSE [names |-> nm,
        data  |-> [d EXCEPT ![nm[dst]] = d[nm[src]]]]

\* ---- the open file object self._f -----------------------------------------
\* overwrite content c with b, starting after the first pos characters
WriteAt(c, pos, b) ==
  [ i \in 1..MaxOf(Len(c), pos + Len(b)) |->
      IF i > pos /\ i <= pos + Len(b) THEN b[i - pos]
      ELSE IF i <= Len(c) THEN c[i] ELSE "0" ]

\* (a close that drops the buffer)
FlushedLost(c, h) == c

\* the content of the inode once the handle's buffer has been written out
Flushed(c, h) ==
  IF h.buf = <<>> THEN c
  ELSE IF h.app THEN c \o h.buf
  ELSE WriteAt(c, h.pos, h.buf)

\* the position of the file object once its buffer has been written out
FlushedPos(c, h) ==
  IF h.buf = <<>> THEN h.pos
  ELSE IF h.app THEN Len(c) + Len(h.buf)
  ELSE h.pos + Len(h.buf)

\* file.truncate(size): the content cut, or filled up with zeros, to size
Resized(c, size) ==
  [ i \in 1..size |-> IF i <= Len(c) THEN c[i] ELSE "0" ]

\* an object that has no file object of its own (open() raised)
ClosedHandle ==
  [open |-> FALSE, ino |-> NoFile, pos |-> 0, app |-> FALSE, rd |-> FALSE,
   wr |-> FALSE, bin |-> FALSE, buf |-> <<>>]

\* the file object h once it is closed: it is still the object open() made,
\* for reading or for writing, of text or of bytes
Closed(h) ==
  [h EXCEPT !.open = FALSE, !.ino = NoFile, !.pos = 0, !.app = FALSE,
            !.buf = <<>>]

\* the record of a call: the operation, the editor it was made on (for a
\* construction: the editor it produced, 0 if it raised), the (context, path)
\* and the mode it was given, the exception it raised ("ok" if it returned),
\* whether it returned at once because there was nothing to do, and for
\* __exit__: the exception the body of the scope raised ("none" if it
\* completed), the value __exit__ returned and the system calls it made
NoCall == [op |-> "none", ed |-> 0, ctx |-> "", path |-> "", mode |-> <<>>,
           err |-> "ok", noop |-> FALSE,
           body |-> "none", res |-> "None", calls |-> <<>>]
ConstructCall(e, c, p, m, err) ==
  [NoCall EXCEPT !.op = "construct", !.ed = e, !.ctx = c, !.path = p,
                 !.mode = m, !.err = err]
EditorCall(op, e, err, noop) ==
  [NoCall EXCEPT !.op = op, !.ed = e, !.ctx = eds[e].ctx, !.path = eds[e].path,
                 !.err = err, !.noop = noop]
\* a call of one of the class methods clear_context and clear
ClassCall(op, c, p, err, noop) ==
  [NoCall EXCEPT !.op = op, !.ctx = c, !.path = p, !.err = err, !.noop = noop]

\* ---- the state of the class and of the files ------------------------------
\* The methods are written as functions from one such state to the next, so
\* that a method that calls others (clear_context, the harness) is modelled
\* by composing them.
Cur == [names |-> names, data |-> data, eds |-> eds, reg |-> reg, known |-> known]

Install(S) ==
  /\ names' = S.names
  /\ data' = S.data
  /\ eds' = S.eds
  /\ reg' = S.reg
  /\ known' = S.known

\* the inode the next file creation takes in state S
FreshIn(S) == MinOfSet(Inodes \ Used(S.names, S.eds))

\* ---- initial state --------------------------------------------------------
InitStates == { [ex |-> FALSE, c |-> <<>>] } \cup
              { [ex |-> TRUE, c |-> x] : x \in InitContents }

\* A clean directory: every target in P either is absent or is in one of
\* the states of St, no other file exists.
InitFilesIn(P, St) ==
  \E st \in [Paths -> St] :
    /\ \A p \in Paths \ P : ~st[p].ex
    /\ names = [ n \in Names |->
                   IF n[2] = "target" /\ st[n[1]].ex
                   THEN PathIndex(n[1]) ELSE NoFile ]
    /\ data = [ i \in Inodes |->
                   IF i <= Len(PathSeq) /\ st[PathSeq[MinOf(i, Len(PathSeq))]].ex
                   THEN st[PathSeq[i]].c ELSE <<>> ]

InitFiles(P) == InitFilesIn(P, InitStates)

\* no editor was constructed yet, nothing is registered
InitClass ==
  /\ eds = <<>>
  /\ reg = [ k \in Contexts \X Paths |-> 0 ]
  /\ known = {}
  /\ last = NoCall

\* ---- BackupEditAndRestore._register / _unregister -------------------------
\* (a registration that never finds the path)
IsRegisteredNever(r, c, p) == FALSE

\* if path in cls._contexts[context]: raise RuntimeError("File already backed up!")
IsRegistered(r, c, p) == r[<<c, p>>] # 0

\* the exception _unregister(context, path, inst) raises in state S, run by
\* interpreter py, "ok" if none: KeyError from cls._contexts[context] for a
\* context that was never created; else one of two RuntimeErrors, or the
\* AttributeError that making its message raises
UnregisterError(S, py, c, p, e) ==
  IF c \notin S.known THEN "KeyError"
  ELSE IF S.reg[<<c, p>>] = 0
  THEN (IF MessageFails(py) THEN "AttributeError" ELSE "NotRegistered")
  ELSE IF S.reg[<<c, p>>] # e
  THEN (IF MessageFails(py) THEN "AttributeError" ELSE "InstanceMismatch")
  ELSE "ok"

\* what _unregister raises for a path that is not registered, or that is
\* registered to another instance
UnregisterErrors == {"NotRegistered", "InstanceMismatch", "AttributeError"}

\* del cls._contexts[context][path], unless an exception was raised
Unregister(S, py, c, p, e) ==
  IF UnregisterError(S, py, c, p, e) = "ok"
  THEN [S.reg EXCEPT ![<<c, p>>] = 0] ELSE S.reg

\* ---- BackupEditAndRestore.__init__ ----------------------------------------
\* The object as __init__ leaves it when it returns.  mode and pre are not
\* attributes of the object: they record the mode it was opened with and the
\* state of the target when it was constructed; scope is the caller's
\* position with respect to its `with` block ("stray" once __exit__ was
\* called anywhere but at the end of the block) and ops the number of calls
\* made on the methods of its file object.
NewEditor(c, p, m, h, pre) ==
  [ ctx |-> c, path |-> p,
    entered |-> FALSE, have_backup |-> "None", restored |-> FALSE,
    h |-> h,
    scope |-> "new", mode |-> m, pre |-> pre, ops |-> 0 ]

\* the file object open(self._new_path, mode) returns on interpreter py,
\* the mode being of the given kind: with 'b' in the mode Python 3 returns
\* an object that reads and writes bytes (io.BufferedReader, BufferedWriter
\* or BufferedRandom), Python 2.7 a file object like any other
OpenHandle(py, ino, kind, m) ==
  [open |-> TRUE, ino |-> ino, pos |-> 0, app |-> (kind = "append"),
   rd |-> (kind = "read" \/ "+" \in Range(m)), wr |-> (kind # "read"),
   bin |-> (py # "2.7" /\ "b" \in Range(m)),
   buf |-> <<>>]

\* BackupEditAndRestore(c, p, m) in state S, run by interpreter py: the
\* state it leaves, the exception it raises ("ok" if none) and the editor it
\* returns (0 if none)
DoConstruct(S, py, c, p, m) ==
  IF RejectedMode(m)
  THEN \* raise ValueError('Wrong file opening mode')
       [s |-> S, err |-> "ValueError", ed |-> 0]
  ELSE IF IsRegistered(S.reg, c, p)
  THEN \* _register raises; the context was created if need be
       [s |-> [S EXCEPT !.known = @ \cup {c}], err |-> "AlreadyBackedUp", ed |-> 0]
  ELSE
    LET pre == FileState(S.names, S.data, TargetName(p))
        fresh == FreshIn(S)
        \* shutil.copy(self._path, self._new_path)
        cp  == IF Prepopulates(m) /\ IsFile(S.names, TargetName(p))
               THEN CopyFile(S.names, S.data, TargetName(p), NewName(p), fresh)
               ELSE [names |-> S.names, data |-> S.data]
    IN
    IF InvalidOpenMode(py, m)
    THEN \* open() raises ValueError, which `except IOError` does not catch:
         \* the object stays registered though the caller never gets it
         LET es == Append(S.eds,
                          [NewEditor(c, p, m, ClosedHandle, pre)
                             EXCEPT !.scope = "lost"])
         IN [s |-> [names |-> cp.names,
                    data  |-> Clean(cp.names, es, cp.data),
                    eds   |-> es,
                    reg   |-> [S.reg EXCEPT ![<<c, p>>] = Len(es)],
                    known |-> S.known \cup {c}],
             err |-> "ValueError", ed |-> 0]
    ELSE IF OpenKind(py, m) \in {"update", "read"} /\ ~IsFile(cp.names, NewName(p))
    THEN \* open() raises IOError: the registration is undone
         [s |-> [S EXCEPT !.known = @ \cup {c}], err |-> "IOError", ed |-> 0]
    ELSE
      \* open(self._new_path, mode)
      LET kind == OpenKind(py, m)
          op == IF ~IsFile(cp.names, NewName(p))
                THEN [names |-> [cp.names EXCEPT ![NewName(p)] = fresh],
                      data  |-> [cp.data EXCEPT ![fresh] = <<>>]]
                ELSE IF kind = "trunc"
                THEN [names |-> cp.names,
                      data  |-> [cp.data EXCEPT ![cp.names[NewName(p)]] = <<>>]]
                ELSE cp
          e == Len(S.eds) + 1
          es == Append(S.eds,
                       NewEditor(c, p, m,
                                 OpenHandle(py, op.names[NewName(p)], kind, m),
                                 pre))
      IN
      [s |-> [names |-> op.names,
              data  |-> Clean(op.names, es, op.data),
              eds   |-> es,
              reg   |-> [S.reg EXCEPT ![<<c, p>>] = e],
              known |-> S.known \cup {c}],
       err |-> "ok", ed |-> e]

Construct(c, p, m) ==
  \E py \in Interpreters :
  \E r \in {DoConstruct(Cur, py, c, p, m)} :
  /\ Len(r.s.eds) <= MaxEditors
  /\ Install(r.s)
  /\ last' = ConstructCall(r.ed, c, p, m, r.err)
  /\ UNCHANGED <<vcs, hs, td, io>>

\* ---- BackupEditAndRestore.__enter__ ---------------------------------------
\* (an entry that does not look at the flag)
AlreadyEnteredNever(E) == FALSE

\* if self._entered is True: raise RuntimeError
AlreadyEntered(E) == E.entered

\* e.__enter__() in state S; scope is the position the caller is left at
DoEnter(S, e) ==
  LET E == S.eds[e]
      p == E.path
  IN
  IF AlreadyEntered(E)
  THEN \* raise RuntimeError("You cannot re-use ...")
       [s |-> S, err |-> "IllegalReuse"]
  ELSE IF ~E.h.open
  THEN \* self._f.__enter__() on a closed file raises ValueError
       [s |-> [S EXCEPT !.eds[e].entered = TRUE, !.eds[e].have_backup = "False"],
        err |-> "ValueError"]
  ELSE
    LET bk == IF IsFile(S.names, TargetName(p))
              THEN CopyFile(S.names, S.data, TargetName(p), BackupName(p), FreshIn(S))
              ELSE [names |-> S.names, data |-> S.data]
        es == [S.eds EXCEPT ![e].entered = TRUE,
                            ![e].have_backup =
                               IF IsFile(S.names, TargetName(p)) THEN "True" ELSE "False",
                            ![e].scope = "in"]
    IN
    [s |-> [S EXCEPT !.names = bk.names, !.eds = es,
                     !.data = Clean(bk.names, es, bk.data)],
     err |-> "ok"]

Enter(e) ==
  /\ e \in Editors
  /\ \E r \in {DoEnter(Cur, e)} :
     /\ Install(r.s)
     /\ last' = EditorCall("enter", e, r.err, FALSE)
  /\ UNCHANGED <<vcs, hs, td, io>>

\* ---- the methods of the file object, reached through __getattr__ ----------
\* __getattr__ hands every attribute the editor does not have to self._f:
\* the caller can write, read, seek, truncate, flush and close, before the
\* scope, inside it and after it.
\* f.write(d): the text goes to the buffer of the file object, which is
\* written out when the file is flushed or closed (the texts written are
\* far smaller than the buffer)
DoWrite(S, e, d) == [S EXCEPT !.eds[e].h.buf = @ \o <<d>>]

\* f.flush(): the buffer is written out
DoFlush(S, e) ==
  LET h == S.eds[e].h IN
  [S EXCEPT !.data[h.ino] = Flushed(@, h),
            !.eds[e].h.pos = FlushedPos(S.data[h.ino], h),
            !.eds[e].h.buf = <<>>]

\* f.read(): what was written is written out, the rest of the file is read
DoRead(S, e) ==
  Bind(DoFlush(S, e), LAMBDA W :
    [W EXCEPT !.eds[e].h.pos = MaxOf(@, Len(W.data[W.eds[e].h.ino]))])

\* f.seek(pos)
DoSeek(S, e, pos) ==
  Bind(DoFlush(S, e), LAMBDA W : [W EXCEPT !.eds[e].h.pos = pos])

\* f.truncate(size): the position stays where it is
DoTruncate(S, e, size) ==
  Bind(DoFlush(S, e), LAMBDA W :
    [W EXCEPT !.data[W.eds[e].h.ino] = Resized(@, size)])

\* f.close()
DoClose(S, e) ==
  Bind(DoFlush(S, e), LAMBDA W :
    LET es == [W.eds EXCEPT ![e].h = Closed(@)] IN
    [W EXCEPT !.eds = es, !.data = Clean(W.names, es, W.data)])

\* the methods that write to the file
WritingMethods == {"write", "writelines", "truncate"}

\* the methods called; seek and truncate are called as seek(0), truncate(0)
FileMethods == {"write", "writelines", "read", "seek", "truncate", "flush", "close"}

\* The exception a call of method op raises on file object h, "ok" if none;
\* the text given to write() and writelines() is a native str.
\* A file object of Python 2.7, or of Python 3 for text: once it is closed
\* every method but close() raises ValueError; read() on a file opened for
\* writing only, and write(), writelines() and truncate() on a file opened
\* for reading only, raise (io.UnsupportedOperation, IOError on Python 2.7).
\* A file object of Python 3 for bytes: write() raises
\* io.UnsupportedOperation if the file was opened for reading only and
\* TypeError for the str otherwise, read() raises io.UnsupportedOperation
\* if the file was opened for writing only, all three whether the file is
\* closed or not; then a closed file raises ValueError as above, and
\* writelines() and truncate() raise as write() does.
FileCallError(h, op) ==
  IF op = "close" THEN "ok"
  ELSE IF h.bin /\ op = "write"
  THEN (IF h.wr THEN "TypeError" ELSE "NotWritable")
  ELSE IF h.bin /\ op = "read" /\ ~h.rd THEN "NotReadable"
  ELSE IF ~h.open THEN "ValueError"
  ELSE IF op = "read" /\ ~h.rd THEN "NotReadable"
  ELSE IF op \in WritingMethods /\ ~h.wr THEN "NotWritable"
  ELSE IF h.bin /\ op = "writelines" THEN "TypeError"
  ELSE "ok"

\* a call of a method of the file object of editor e: the state it leaves
\* and the exception it raises; a call that raises writes nothing out, and
\* close() on a closed file does nothing
DoFileCall(S, e, op, d) ==
  LET h == S.eds[e].h
      T == [S EXCEPT !.eds[e].ops = @ + 1]
      err == FileCallError(h, op)
  IN
  IF err # "ok" \/ ~h.open
  THEN [s |-> T, err |-> err]
  ELSE [s |-> CASE op = "write"      -> DoWrite(T, e, d)
               [] op = "writelines" -> DoWrite(T, e, d)
               [] op = "read"       -> DoRead(T, e)
               [] op = "seek"       -> DoSeek(T, e, 0)
               [] op = "truncate"   -> DoTruncate(T, e, 0)
               [] op = "flush"      -> DoFlush(T, e)
               [] op = "close"      -> DoClose(T, e),
        err |-> "ok"]

\* the calls made on the file objects so far
RECURSIVE SumOps(_)
SumOps(es) == IF es = <<>> THEN 0 ELSE Head(es).ops + SumOps(Tail(es))

FileCall(e, op, d) ==
  /\ e \in Editors
  /\ SumOps(eds) < MaxCalls
  /\ \E r \in {DoFileCall(Cur, e, op, d)} :
     /\ Install(r.s)
     /\ last' = EditorCall(op, e, r.err, FALSE)
  /\ UNCHANGED <<vcs, hs, td, io>>

Write(e, d) == FileCall(e, "write", d)
WriteLines(e, d) == FileCall(e, "writelines", d)
Read(e) == FileCall(e, "read", "")
Seek(e) == FileCall(e, "seek", "")
Truncate(e) == FileCall(e, "truncate", "")
Flush(e) == FileCall(e, "flush", "")
Close(e) == FileCall(e, "close", "")

\* a call of one of the methods that do not write
FileMethod(e) == Read(e) \/ Seek(e) \/ Truncate(e) \/ Flush(e) \/ Close(e)

\* ---- BackupEditAndRestore.__exit__ ----------------------------------------
\* what the body of a `with` block does: complete, or raise
BodyOutcomes == {"none", "BodyError"}

\* res = self._f.__exit__(*args): the buffer is flushed, the file is closed;
\* the file object returns None whatever exception it is given
FileExit(S, e) ==
  LET E == S.eds[e] IN
  [s |-> [S EXCEPT !.data = IF E.h.open
                             THEN [S.data EXCEPT ![E.h.ino] = Flushed(@, E.h)]
                             ELSE @,
                   !.eds[e].h = Closed(@)],
   res |-> "None",
   calls |-> << <<"close", NewName(E.path), NewName(E.path)>> >>]

\* _move(self._new_path, self._path)
MoveEdit(S, e) ==
  LET mv == Move(S.names, NewName(S.eds[e].path), TargetName(S.eds[e].path)) IN
  [s |-> [S EXCEPT !.names = mv.names], ok |-> mv.ok, calls |-> mv.calls]

\* where an __exit__ call leaves the caller: out of the `with` block it was
\* in, astray if the call was not made at the end of the block
Left(scope) == IF scope = "in" THEN "out" ELSE "stray"

\* (an exit that moves the edition file before it closes it)
DoExitMoveFirst(S, e) ==
  LET mv == MoveEdit(S, e)
      cl == FileExit(mv.s, e)
      es == [cl.s.eds EXCEPT ![e].scope = Left(@)]
  IN
  [s |-> [cl.s EXCEPT !.eds = es, !.data = Clean(cl.s.names, es, cl.s.data)],
   err |-> IF mv.ok THEN "ok" ELSE "OSError",
   res |-> cl.res,
   calls |-> mv.calls \o cl.calls]

\* e.__exit__(*args) in state S: the state it leaves, the exception it
\* raises itself ("ok" if none), the value it returns and the calls it made
DoExit(S, e) ==
  LET cl == FileExit(S, e)
      mv == MoveEdit(cl.s, e)
      es == [mv.s.eds EXCEPT ![e].scope = Left(@)]
  IN
  [s |-> [mv.s EXCEPT !.eds = es, !.data = Clean(mv.s.names, es, mv.s.data)],
   err |-> IF mv.ok THEN "ok" ELSE "OSError",
   res |-> cl.res,
   calls |-> cl.calls \o mv.calls]

\* the `with` statement re-raises the exception of the body unless __exit__
\* returned a true value
Truthy(res) == res = "True"
Propagates(body, res) == body # "none" /\ ~Truthy(res)

\* e.__exit__(*args), at the end of a `with` block whose body completed or
\* raised x, or called by hand: nothing in __exit__ looks at the state of
\* the editor
Exit(e, x) ==
  /\ e \in Editors
  /\ \E r \in {DoExit(Cur, e)} :
     /\ Install(r.s)
     /\ last' = [EditorCall("exit", e, r.err, FALSE)
                   EXCEPT !.body = x, !.res = r.res, !.calls = r.calls]
  /\ UNCHANGED <<vcs, hs, td, io>>

\* ---- BackupEditAndRestore.restore -----------------------------------------
\* (a restore that does not look at the flag)
AlreadyRestoredNever(E) == FALSE

\* if self._restored is True: return
AlreadyRestored(E) == E.restored

\* e.restore() in state S, run by interpreter py
DoRestore(S, py, e) ==
  LET E == S.eds[e]
      p == E.path
  IN
  IF AlreadyRestored(E)
  THEN [s |-> S, err |-> "ok", noop |-> TRUE]
  ELSE
    LET fs == IF E.have_backup = "True"
              THEN Move(S.names, BackupName(p), TargetName(p))
              ELSE Remove(S.names, TargetName(p))
    IN
    IF ~fs.ok
    THEN \* OSError from _move or os.unlink: nothing after it runs
         [s |-> [S EXCEPT !.names = fs.names,
                          !.data = Clean(fs.names, S.eds, S.data)],
          err |-> "OSError", noop |-> FALSE]
    ELSE
      LET es == [S.eds EXCEPT ![e].restored = TRUE] IN
      [s |-> [S EXCEPT !.names = fs.names, !.eds = es,
                       !.data = Clean(fs.names, es, S.data),
                       !.reg = Unregister(S, py, E.ctx, p, e)],
       err |-> UnregisterError(S, py, E.ctx, p, e), noop |-> FALSE]

Restore(e) ==
  /\ e \in Editors
  /\ \E py \in Interpreters :
     \E r \in {DoRestore(Cur, py, e)} :
     /\ Install(r.s)
     /\ last' = EditorCall("restore", e, r.err, r.noop)
  /\ UNCHANGED <<vcs, hs, td, io>>

\* ---- BackupEditAndRestore.clear_context / clear ---------------------------
\* the elements of a set of numbers, in increasing order
RECURSIVE Sorted(_)
Sorted(X) ==
  IF X = {} THEN <<>>
  ELSE <<MinOfSet(X)>> \o Sorted(X \ {MinOfSet(X)})

\* the listings of the paths
RECURSIVE Perms(_)
Perms(X) ==
  IF X = {} THEN { <<>> }
  ELSE UNION { { <<x>> \o s : s \in Perms(X \ {x}) } : x \in X }

\* The order in which a dict lists its keys.  On the later versions of
\* Python 3 it is the order of insertion, written <<"insertion">> here; on
\* Python 2.7 and on the versions of Python 3 that setup.py declares it is
\* the order of the hash table, which is any listing of the keys as far as
\* the class can tell.
InsertionOrder == <<"insertion">>
HashOrders(K) == Perms(K)
KeyOrders(py, K) == IF py = "3.10" THEN {InsertionOrder} ELSE HashOrders(K)

\* the keys of cls._contexts[c]
RegisteredPaths(S, c) == { p \in Paths : S.reg[<<c, p>>] # 0 }

\* list(cls._contexts[context].values()) when the dict lists its keys in the
\* order ord.  An editor is registered when it is constructed, so the order
\* of insertion is the order of construction.
Registered(S, c, ord) ==
  IF ord = InsertionOrder
  THEN Sorted({ S.reg[<<c, p>>] : p \in Paths } \ {0})
  ELSE LET ks == SelectSeq(ord, LAMBDA p : S.reg[<<c, p>>] # 0) IN
       [ i \in 1..Len(ks) |-> S.reg[<<c, ks[i]>>] ]

\* for instance in ...: instance.restore(); an exception ends the loop
RECURSIVE RestoreAll(_, _, _)
RestoreAll(S, py, todo) ==
  IF todo = <<>> THEN [s |-> S, err |-> "ok"]
  ELSE LET r == DoRestore(S, py, Head(todo)) IN
       IF r.err # "ok" THEN [s |-> r.s, err |-> r.err]
       ELSE RestoreAll(r.s, py, Tail(todo))

\* BackupEditAndRestore.clear_context(c) in state S, run by interpreter py
DoClearContext(S, py, c, ord) ==
  IF c \notin S.known
  THEN \* if context not in cls._contexts: return
       [s |-> S, err |-> "ok", noop |-> TRUE]
  ELSE LET r == RestoreAll(S, py, Registered(S, c, ord)) IN
       [s |-> r.s, err |-> r.err, noop |-> FALSE]

ClearContext(c) ==
  /\ \E py \in Interpreters :
     \E ord \in KeyOrders(py, RegisteredPaths(Cur, c)) :
     \E r \in {DoClearContext(Cur, py, c, ord)} :
     /\ Install(r.s)
     /\ last' = ClassCall("clear_context", c, "", r.err, r.noop)
  /\ UNCHANGED <<vcs, hs, td, io>>

\* (a clear that restores the most recently constructed editor)
DoClearLatest(S, py, c, p) ==
  IF c \notin S.known \/ S.reg[<<c, p>>] = 0
  THEN [s |-> S, err |-> "KeyError", noop |-> FALSE]
  ELSE DoRestore(S, py, Len(S.eds))

\* BackupEditAndRestore.clear(c, p) in state S, run by interpreter py:
\* cls._contexts[context][path].restore()
DoClear(S, py, c, p) ==
  IF c \notin S.known \/ S.reg[<<c, p>>] = 0
  THEN [s |-> S, err |-> "KeyError", noop |-> FALSE]
  ELSE DoRestore(S, py, S.reg[<<c, p>>])

Clear(c, p) ==
  /\ \E py \in Interpreters :
     \E r \in {DoClear(Cur, py, c, p)} :
     /\ Install(r.s)
     /\ last' = ClassCall("clear", c, p, r.err, r.noop)
  /\ UNCHANGED <<vcs, hs, td, io>>

\* ---- specifications -------------------------------------------------------
EditorIds == 1..MaxEditors

\* the other components, not running
VcsIdle     == [pc |-> "idle"]
HarnessIdle == [pc |-> "idle"]
TempDirIdle == [pc |-> "idle"]
CaptureIdle == [pc |-> "idle"]

OthersIdle ==
  /\ vcs = VcsIdle
  /\ hs = HarnessIdle
  /\ td = TempDirIdle
  /\ io = CaptureIdle

\* one file, absent or holding some content, and no editor yet
Init == InitFiles(OnePath) /\ InitClass /\ OthersIdle

\* the caller is inside the `with` block of editor e
InScope(e) == e \in Editors /\ eds[e].scope = "in"

\* the caller writes inside the `with` block of editor e
Writing(e) == InScope(e) /\ SumOps(eds) < MaxWrites

\* Any number of editors on a path, live at the same time or not.  The
\* scopes are `with` blocks: the file is written to inside the block and
\* __exit__ is called at its end; construction, entry and restore() come in
\* any order.
Next ==
  \/ \E c \in OneContext, p \in OnePath, m \in ModeSet : Construct(c, p, m)
  \/ \E e \in EditorIds : Enter(e)
  \/ \E e \in EditorIds, d \in Data : Writing(e) /\ Write(e, d)
  \/ \E e \in EditorIds, x \in BodyOutcomes : InScope(e) /\ Exit(e, x)
  \/ \E e \in EditorIds : Restore(e)

Spec == Init /\ [][Next]_vars

\* One editor at a time on a path: an editor is constructed for a path only
\* once every earlier editor of that path is done with (its scope exited and
\* restore() run), and a construction is also attempted while the path is
\* registered.  The scopes are `with` blocks, as in Spec.
NoLiveEditorOn(p) ==
  \A e \in Editors :
    eds[e].path = p => (eds[e].scope = "out" /\ eds[e].restored)

NextSeq ==
  \/ \E c \in OneContext, p \in OnePath, m \in ModeSet :
       (NoLiveEditorOn(p) \/ reg[<<c, p>>] # 0) /\ Construct(c, p, m)
  \/ \E e \in EditorIds : Enter(e)
  \/ \E e \in EditorIds, d \in Data : Writing(e) /\ Write(e, d)
  \/ \E e \in EditorIds, x \in BodyOutcomes : InScope(e) /\ Exit(e, x)
  \/ \E e \in EditorIds : Restore(e)

SpecSeq == Init /\ [][NextSeq]_vars

\* One editor, used in any way the object allows: every call comes at any
\* time and any number of times, __exit__ called by hand and the methods of
\* the file object that __getattr__ hands out included, before the scope,
\* inside it and after it.
NextFile ==
  \/ \E c \in OneContext, p \in OnePath, m \in FileModes :
       Editors = {} /\ Construct(c, p, m)
  \/ \E e \in EditorIds : Enter(e)
  \/ \E e \in EditorIds, d \in Data : Write(e, d) \/ WriteLines(e, d)
  \/ \E e \in EditorIds : FileMethod(e)
  \/ \E e \in EditorIds, x \in BodyOutcomes : Exit(e, x)
  \/ \E e \in EditorIds : Restore(e)

SpecFile == Init /\ [][NextFile]_vars

\* Two files, one that exists and one that does not, and two contexts; each
\* file is edited once, in a `with` block; construction, entry and restore()
\* come in any order, and the files are restored through the editor or
\* through the class methods clear_context and clear.
InitCtx ==
  /\ InitFiles(TwoPaths)
  /\ IsFile(names, TargetName("p")) /\ data[names[TargetName("p")]] # <<>>
  /\ ~IsFile(names, TargetName("q"))
  /\ InitClass /\ OthersIdle

\* the (context, file) pairs the caller of SpecCtx uses
CtxKeys == { <<"c1", "p">>, <<"c1", "q">>, <<"c2", "q">> }

NeverEdited(p) == \A e \in Editors : eds[e].path # p

NextCtx ==
  \/ \E k \in CtxKeys, m \in CtxModes :
       (NeverEdited(k[2]) \/ reg[k] # 0) /\ Construct(k[1], k[2], m)
  \/ \E e \in EditorIds : Enter(e)
  \/ \E e \in EditorIds, d \in Data : Writing(e) /\ Write(e, d)
  \/ \E e \in EditorIds, x \in BodyOutcomes : InScope(e) /\ Exit(e, x)
  \/ \E e \in EditorIds : Restore(e)
  \/ \E c \in Contexts : ClearContext(c)
  \/ \E c \in Contexts, p \in TwoPaths : Clear(c, p)

SpecCtx == InitCtx /\ [][NextCtx]_vars

\* One file and one context, one editor at a time as in SpecSeq and edited
\* in a `with` block, with the modes 'wU' and 'U+' as well, and 'bU', 'br'
\* and 'tr', which ask for reading only and do not begin with 'r' or 'U':
\* modes that the interpreters do not treat alike.  The class methods are
\* called too.  The caller holds no reference to an object whose
\* construction raised: it makes no call on it.
RegModes == ModeSet \cup { <<"w", "U">>, <<"U", "+">>,
                           <<"b", "U">>, <<"b", "r">>, <<"t", "r">> }

Held(e) == e \in Editors /\ eds[e].scope # "lost"

NoneLeftOn(p) ==
  \A e \in Editors :
    eds[e].path = p => (eds[e].scope \in {"out", "lost"} /\ eds[e].restored)

NextReg ==
  \/ \E c \in OneContext, p \in OnePath, m \in RegModes :
       (NoneLeftOn(p) \/ reg[<<c, p>>] # 0) /\ Construct(c, p, m)
  \/ \E e \in EditorIds : Held(e) /\ Enter(e)
  \/ \E e \in EditorIds, d \in Data : Writing(e) /\ Write(e, d)
  \/ \E e \in EditorIds, x \in BodyOutcomes : InScope(e) /\ Exit(e, x)
  \/ \E e \in EditorIds : Held(e) /\ Restore(e)
  \/ \E c \in OneContext : ClearContext(c)
  \/ \E c \in OneContext, p \in OnePath : Clear(c, p)

SpecReg == Init /\ [][NextReg]_vars

\* One file edited under two contexts: one editor per context, each used as
\* intended (constructed, entered once, written to inside its scope,
\* restored after its scope has ended), the steps of the two editors in any
\* order.
IsoKeys == { <<"c1", "p">>, <<"c2", "p">> }

NoEditorOf(c) == \A e \in Editors : eds[e].ctx # c

NextIso ==
  \/ \E k \in IsoKeys, m \in CtxModes : NoEditorOf(k[1]) /\ Construct(k[1], k[2], m)
  \/ \E e \in EditorIds : e \in Editors /\ eds[e].scope = "new" /\ Enter(e)
  \/ \E e \in EditorIds, d \in Data : Writing(e) /\ Write(e, d)
  \/ \E e \in EditorIds, x \in BodyOutcomes : InScope(e) /\ Exit(e, x)
  \/ \E e \in EditorIds : e \in Editors /\ eds[e].scope = "out" /\ Restore(e)

SpecIso == Init /\ [][NextIso]_vars

\* ---- _move on its own ------------------------------------------------------
\* A caller of _move(src, dst) on the files of a directory, as the test
\* test_move_auxiliary_other makes it, with os.rename and os.remove failing
\* or not on each of the calls.
MoveNames == { TargetName(p) : p \in Paths }
MoveFaults == SUBSET (1..3)

\* the record of a call of _move: its arguments, the calls that were made to
\* fail, the exception it raised ("ok" if it returned) and the system calls
\* it made
MoveCall(src, dst, F, r) ==
  [op |-> "move", src |-> src, dst |-> dst, faults |-> F,
   err |-> IF r.ok THEN "ok" ELSE "OSError", calls |-> r.calls]

MoveStep(src, dst, F) ==
  /\ src # dst
  /\ \E r \in {MoveUnder(F, names, src, dst)} :
     /\ names' = r.names
     /\ data' = Clean(r.names, eds, data)
     /\ last' = MoveCall(src, dst, F, r)
  /\ UNCHANGED <<eds, reg, known, vcs, hs, td, io>>

InitMove == InitFiles(Paths) /\ InitClass /\ OthersIdle

NextMove == \E src \in MoveNames, dst \in MoveNames, F \in MoveFaults : MoveStep(src, dst, F)

SpecMove == InitMove /\ [][NextMove]_vars

TypeOK ==
  /\ names \in [Names -> Inodes \cup {NoFile}]
  /\ Len(eds) <= MaxEditors
  /\ \A k \in Contexts \X Paths : reg[k] \in 0..Len(eds)
  /\ known \subseteq Contexts

\* ==== vcs_ssh ==============================================================
\* A word is the sequence of the pieces its string has between slashes:
\* 'a/../RW' is <<"a", "..", "RW">> and 'RW/' is <<"RW", "">>; the string of an
\* absolute path starts with the component "/" ('/w/RW' is <<"/", "w", "RW">>,
\* '//w' is <<"/", "", "w">>, '/' is <<"/">>), and a word without a slash
\* has one component.  SSH_ORIGINAL_COMMAND is a sequence of words,
\* blanks and quotes; two words are always separated by a blank or a quote.
Word(s) == <<s>>
Blank   == <<" ">>
Quote   == <<"'">>

Rejected        == 255    \* rejectrepo, rejectpush, rejectcommand
CommandNotFound == 254    \* have_required_command

Cwd  == <<"/", "w">>      \* os.getcwd()
Home == <<"/", "h">>      \* the home directory of the user

GitPrograms == { Word("git-receive-pack"), Word("git-upload-pack") }
Programs    == GitPrograms \cup { Word("hg"), Word("bzr"), Word("svnserve") }

\* the repository paths a client sends
RawPaths == { <<"RW">>, <<".", "RW">>, <<"x", "..", "RO">>, <<"/", "w", "RW">>,
              <<"/", "w", "..", "w", "BOTH">>, <<"..", "w", "RO">>,
              <<"~", "RW">>, <<"WRONG">>, <<"/", "..">>,
              <<"/", "", "w", "RW">>, <<"/", "", "", "w", "RW">>,
              <<"RW", "">>, <<"/", "", "">> }

\* the lists the administrator gives, as parse_args leaves them
RwLists == { {}, { <<"/", "w", "RW">>, <<"/", "h", "RW">> },
             { <<"/", "w", "RW">>, <<"/", "w", "BOTH">> } }
RoLists == { {}, { <<"/", "w", "RO">> },
             { <<"/", "w", "RO">>, <<"/", "w", "BOTH">>, <<"/">> } }

\* the programs found on PATH
InstalledSets == { Programs, {} }
\* the exit status of the subprocess
Statuses == {0, 1}

\* ---- os.path ---------------------------------------------------------------
IsAbs(w) == w # <<>> /\ w[1] = "/"

\* os.path.expanduser: a leading '~' component is replaced by the home
Expanduser(w) == IF w # <<>> /\ w[1] = "~" THEN Home \o Tail(w) ELSE w

\* the loop of posixpath.normpath over the components
RECURSIVE NormComps(_, _, _)
NormComps(abs, comps, acc) ==
  IF comps = <<>> THEN acc
  ELSE LET c == Head(comps) IN
       IF c \in {"", "."} THEN NormComps(abs, Tail(comps), acc)
       ELSE IF \/ c # ".."
               \/ (~abs /\ acc = <<>>)
               \/ (acc # <<>> /\ acc[Len(acc)] = "..")
       THEN NormComps(abs, Tail(comps), Append(acc, c))
       ELSE IF acc # <<>>
       THEN NormComps(abs, Tail(comps), SubSeq(acc, 1, Len(acc) - 1))
       ELSE NormComps(abs, Tail(comps), acc)

\* posixpath.normpath keeps exactly two leading slashes ('//a', not '///a'):
\* path.startswith('//') and not path.startswith('///')
TwoSlashes(w) ==
  /\ Len(w) >= 3 /\ w[2] = ""
  /\ ~(Len(w) >= 4 /\ w[3] = "")

\* the slashes the normalized path starts with
InitialSlashes(w) == IF TwoSlashes(w) THEN <<"/", "">> ELSE <<"/">>

\* os.path.normpath; the relative path '.' is the empty sequence, and '//'
\* on its own is <<"/", "", "">>
Normpath(w) ==
  IF IsAbs(w)
  THEN LET comps == NormComps(TRUE, Tail(w), <<>>) IN
       IF TwoSlashes(w) /\ comps = <<>> THEN <<"/", "", "">>
       ELSE InitialSlashes(w) \o comps
  ELSE NormComps(FALSE, w, <<>>)

\* os.path.abspath
Abspath(w) == IF IsAbs(w) THEN Normpath(w) ELSE Normpath(Cwd \o w)

\* repo = os.path.abspath(os.path.normpath(os.path.expanduser(path)))
Normalize(w) == Abspath(Normpath(Expanduser(w)))

\* ---- shlex.split -----------------------------------------------------------
\* the pieces of the string of word w between its slashes, str.split('/'):
\* '/w' is <<"", "w">>, '/' is <<"", "">>, '' is <<"">>
Pieces(w) ==
  IF w = <<>> THEN <<"">>
  ELSE IF w[1] = "/" THEN <<"">> \o (IF Len(w) = 1 THEN <<"">> ELSE Tail(w))
  ELSE w

\* the word whose string has the pieces ps
FromPieces(ps) ==
  IF ps = <<"">> THEN <<>>
  ELSE IF ps[1] = "" THEN <<"/">> \o (IF Tail(ps) = <<"">> THEN <<>> ELSE Tail(ps))
  ELSE ps

\* the word made of the characters of word a followed by those of word b:
\* the last piece of a and the first of b become one piece ('/w' and '/'
\* make '/w/', which with 'RW' makes '/w/RW')
JoinWords(a, b) ==
  LET pa == Pieces(a)
      pb == Pieces(b)
  IN FromPieces(SubSeq(pa, 1, Len(pa) - 1) \o <<pa[Len(pa)] \o pb[1]>> \o Tail(pb))

\* toks: the words completed, cur: the word being read, has: whether one is
\* being read, inq: whether a quote is open
RECURSIVE ShlexScan(_, _, _, _, _)
ShlexScan(items, toks, cur, has, inq) ==
  IF items = <<>>
  THEN IF inq THEN [ok |-> FALSE, argv |-> <<>>]     \* No closing quotation
       ELSE [ok |-> TRUE, argv |-> IF has THEN Append(toks, cur) ELSE toks]
  ELSE LET it == Head(items)
           r  == Tail(items)
       IN
       IF it = Quote THEN ShlexScan(r, toks, cur, TRUE, ~inq)
       ELSE IF it = Blank
       THEN IF inq THEN ShlexScan(r, toks, JoinWords(cur, Blank), TRUE, inq)
            ELSE IF has THEN ShlexScan(r, Append(toks, cur), <<>>, FALSE, FALSE)
            ELSE ShlexScan(r, toks, <<>>, FALSE, FALSE)
       ELSE ShlexScan(r, toks, JoinWords(cur, it), has \/ it # <<>>, inq)

ShlexSplit(items) == ShlexScan(items, <<>>, <<>>, FALSE, FALSE)

\* ---- the handlers ----------------------------------------------------------
\* what a call did: the exception it raised ("none" if it returned), the
\* value it returned, the commands given to hg_dispatch and to
\* subprocess.Popen, and the handler main selected
Outcome(exc, result, hgcalls, popen) ==
  [exc |-> exc, result |-> result, hgcalls |-> hgcalls, popen |-> popen,
   handler |-> "none"]

Returned(result) == Outcome("none", result, <<>>, <<>>)

\* pipe_dispatch(cmd): Popen raises OSError when the program does not exist
PipeDispatch(cmd, installed, status) ==
  IF cmd[1] \in installed
  THEN Outcome("none", status, <<>>, <<cmd>>)
  ELSE Outcome("OSError", 0, <<>>, <<cmd>>)

\* have_required_command: is command[0] a program of a directory of PATH
HaveRequiredCommand(cmd, installed) == cmd[1] \in installed

\* (a check that never sees a push to a read-only repository)
PushToReadOnlyNever(cmd, repo, ro) == FALSE

\* if repo in ro_dirs and "git-receive-pack" == cmdargv[0]
PushToReadOnly(cmd, repo, ro) == repo \in ro /\ cmd[1] = Word("git-receive-pack")

\* (a git_handle for which a repository of rw_dirs is writable, whatever
\* ro_dirs says)
GitHandleWritableWins(cmd, rw, ro, installed, status) ==
  IF ~HaveRequiredCommand(cmd, installed) THEN Returned(CommandNotFound)
  ELSE LET repo == Normalize(cmd[2]) IN
       IF repo \notin rw \cup ro THEN Returned(Rejected)
       ELSE IF PushToReadOnly(cmd, repo, ro \ rw) THEN Returned(Rejected)
       ELSE PipeDispatch([cmd EXCEPT ![2] = repo], installed, status)

GitHandle(cmd, rw, ro, installed, status) ==
  IF ~HaveRequiredCommand(cmd, installed) THEN Returned(CommandNotFound)
  ELSE LET repo == Normalize(cmd[2]) IN
       IF repo \notin rw \cup ro THEN Returned(Rejected)       \* rejectrepo
       ELSE IF PushToReadOnly(cmd, repo, ro) THEN Returned(Rejected) \* rejectpush
       ELSE PipeDispatch([cmd EXCEPT ![2] = repo], installed, status)

HgHooks ==
  << Word("--config"),
     Word("hooks.prechangegroup.hg-ssh=python:vcs_ssh.rejectpush"),
     Word("--config"),
     Word("hooks.prepushkey.hg-ssh=python:vcs_ssh.rejectpush") >>

\* (a rewrite that never adds the hooks)
HgRewriteNoHooks(repo, ro) ==
  << Word("-R"), repo, Word("serve"), Word("--stdio") >>

\* rewrote_command, with the hooks when the repository is read-only
HgRewrite(repo, ro) ==
  << Word("-R"), repo, Word("serve"), Word("--stdio") >>
  \o (IF repo \in ro THEN HgHooks ELSE <<>>)

\* hg_dispatch without the mercurial module: pipe_dispatch(['hg'] + cmdargv)
HgDispatch(cmd, installed, status) ==
  [PipeDispatch(<<Word("hg")>> \o cmd, installed, status)
     EXCEPT !.hgcalls = <<cmd>>]

HgHandle(cmd, rw, ro, installed, status) ==
  IF ~HaveRequiredCommand(cmd, installed) THEN Returned(CommandNotFound)
  ELSE LET repo == Normalize(cmd[3]) IN
       IF repo \in ro \/ repo \in rw
       THEN HgDispatch(HgRewrite(repo, ro), installed, status)
       ELSE Returned(Rejected)                                  \* rejectrepo

BzrHandle(cmd, rw, ro, installed, status) ==
  IF ~HaveRequiredCommand(cmd, installed) THEN Returned(CommandNotFound)
  ELSE PipeDispatch(cmd, installed, status)

\* ---- main ------------------------------------------------------------------
\* cmdargv[:n] and cmdargv[n:]
Take(s, n) == SubSeq(s, 1, MinOf(n, Len(s)))
Drop(s, n) == SubSeq(s, MinOf(n, Len(s)) + 1, Len(s))

BzrCommand ==
  << Word("bzr"), Word("serve"), Word("--inet"), <<"--directory=", "">>,
     Word("--allow-writes") >>
SvnCommand == << Word("svnserve"), Blank, Word("-t") >>

\* os.getenv('SSH_ORIGINAL_COMMAND', '?')
OrigCmd(env) == IF env.set THEN env.items ELSE << Word("?") >>

Main(env, rw, ro, installed, status) ==
  LET orig == OrigCmd(env)
      sp   == ShlexSplit(orig)
      cmdargv == sp.argv
  IN
  IF ~sp.ok THEN Returned(Rejected)            \* rejectcommand(orig_cmd, extra)
  ELSE IF /\ Take(cmdargv, 2) = << Word("hg"), Word("-R") >>
          /\ Drop(cmdargv, 3) = << Word("serve"), Word("--stdio") >>
  THEN [HgHandle(cmdargv, rw, ro, installed, status) EXCEPT !.handler = "hg"]
  ELSE IF cmdargv = <<>>
  THEN Outcome("IndexError", 0, <<>>, <<>>)    \* cmdargv[0] of an empty list
  ELSE IF cmdargv[1] \in GitPrograms /\ Len(cmdargv) = 2
  THEN [GitHandle(cmdargv, rw, ro, installed, status) EXCEPT !.handler = "git"]
  ELSE IF cmdargv = BzrCommand
  THEN [BzrHandle(cmdargv, rw, ro, installed, status) EXCEPT !.handler = "bzr"]
  ELSE IF orig = SvnCommand
  THEN [PipeDispatch(cmdargv, installed, status) EXCEPT !.handler = "svn"]
  ELSE Returned(Rejected)                      \* rejectcommand(orig_cmd)

\* ---- the requests ----------------------------------------------------------
\* words separated by single blanks
RECURSIVE Spaced(_)
Spaced(ws) ==
  IF Len(ws) <= 1 THEN ws
  ELSE <<Head(ws), Blank>> \o Spaced(Tail(ws))

HgArgv(p) == << Word("hg"), Word("-R"), p, Word("serve"), Word("--stdio") >>

GitArgvs == { <<g, p>> : g \in GitPrograms, p \in RawPaths }
HgArgvs  == { HgArgv(p) : p \in RawPaths }

Unset == [set |-> FALSE, items |-> <<>>]
Env(items) == [set |-> TRUE, items |-> items]

\* the values of SSH_ORIGINAL_COMMAND: the recognized forms, and others
Envs ==
  { Env(Spaced(a)) : a \in GitArgvs \cup HgArgvs }
  \cup
  { Unset,
    Env(<<>>),
    Env(<<Blank>>),
    Env(<<Blank, Blank>>),
    Env(<<Word("?")>>),
    Env(<<Word("git-upload-pack")>>),
    Env(<<Word("git-upload-pack"), Blank, Quote, <<"RW">>, Quote>>),
    Env(<<Word("git-upload-pack"), Blank, Quote, <<"RW">>, Blank, <<"x">>, Quote>>),
    Env(<<Word("git-receive-pack"), Blank, Quote, <<"RW">>>>),
    Env(<<Word("git-upload-pack"), Blank, Quote, Quote>>),
    Env(<<Blank, Word("git-upload-pack"), Blank, Blank, <<"RW">>, Blank>>),
    Env(Spaced(<<Word("git-upload-pack"), <<"RW">>, Word("extra")>>)),
    Env(<<Word("git-upload-pack"), Blank, <<"/", "w">>, Quote, <<"RW">>, Quote>>),
    Env(<<Word("git-upload-pack"), Blank, <<"/", "w">>, Quote, <<"/", "RW">>, Quote>>),
    Env(<<Word("git-upload-pack"), Blank, <<"/", "w">>, Quote, <<"/">>, Quote, <<"RW">>>>),
    Env(<<Word("git-upload-pack"), Blank, <<"RW">>, Quote, <<"/">>, Quote>>),
    Env(<<Word("git-upload-pack"), Blank, <<"/">>, Quote, <<"/">>, Quote>>),
    Env(<<Word("h"), Quote, Word("g"), Quote, Blank, Word("-R"), Blank, <<"RW">>,
          Blank, Word("serve"), Blank, Word("--stdio")>>),
    Env(Spaced(<<Word("git"), Word("upload-pack"), <<"RW">>>>)),
    Env(Spaced(HgArgv(<<"RW">>) \o <<Word("extra")>>)),
    Env(Spaced(<<Word("hg"), Word("-R"), Word("serve"), Word("--stdio")>>)),
    Env(Spaced(<<Word("hg"), Word("-R")>>)),
    Env(Spaced(<<Word("hg"), Word("init"), <<"RW">>>>)),
    Env(Spaced(BzrCommand)),
    Env(Spaced(BzrCommand \o <<Word("extra")>>)),
    Env(Spaced(<<Word("bzr"), Word("serve")>>)),
    Env(SvnCommand),
    Env(<<Word("svnserve"), Blank, Blank, Word("-t")>>),
    Env(SvnCommand \o <<Blank, Word("extra")>>),
    Env(<<Word("svnserve")>>),
    Env(Spaced(<<Word("rm"), Word("-rf"), <<"/">>>>)) }

NoOutcome == Returned(0)

VcsRequest(fn, env, argv, rw, ro, installed, status) ==
  [pc |-> "start", fn |-> fn, env |-> env, argv |-> argv, rw |-> rw, ro |-> ro,
   installed |-> installed, status |-> status, out |-> NoOutcome]

VcsRequests ==
  { VcsRequest(r[1][1], r[1][2], r[1][3], r[2], r[3], r[4], r[5]) :
      r \in ( ({"main"} \X Envs \X {<<>>})
              \cup ({"git_handle"} \X {Unset} \X GitArgvs)
              \cup ({"hg_handle"} \X {Unset} \X HgArgvs) )
            \X RwLists \X RoLists \X InstalledSets \X Statuses }

\* ---- specification of vcs_ssh ----------------------------------------------
\* no file, no editor: the editor class is not used
NoFiles == InitFilesIn({}, InitStates) /\ InitClass

InitVcs ==
  /\ NoFiles
  /\ vcs \in VcsRequests
  /\ hs = HarnessIdle
  /\ td = TempDirIdle
  /\ io = CaptureIdle

Answer(out) ==
  /\ vcs' = [vcs EXCEPT !.pc = "done", !.out = out]
  /\ UNCHANGED <<names, data, eds, reg, known, last, hs, td, io>>

\* sshd runs the forced command: vcs_ssh.main(rw_dirs, ro_dirs)
CallMain ==
  /\ vcs.pc = "start" /\ vcs.fn = "main"
  /\ Answer(Main(vcs.env, vcs.rw, vcs.ro, vcs.installed, vcs.status))

\* a direct call of git_handle(cmdargv, rw_dirs, ro_dirs)
CallGitHandle ==
  /\ vcs.pc = "start" /\ vcs.fn = "git_handle"
  /\ Answer(GitHandle(vcs.argv, vcs.rw, vcs.ro, vcs.installed, vcs.status))

\* a direct call of hg_handle(cmdargv, rw_dirs, ro_dirs)
CallHgHandle ==
  /\ vcs.pc = "start" /\ vcs.fn = "hg_handle"
  /\ Answer(HgHandle(vcs.argv, vcs.rw, vcs.ro, vcs.installed, vcs.status))

NextVcs == CallMain \/ CallGitHandle \/ CallHgHandle

SpecVcs == InitVcs /\ [][NextVcs]_vars

\* ==== ssh_harness.BaseSshClientTestCase ====================================
MaxRuns == 2           \* calls of setUpClass / _update_user_known_hosts in a run

\* cls._context_name, and the three files of the user the class edits
HarnessContext  == "c1"
EnvironmentPath == "p"        \* cls._SSH_ENVIRONMENT_PATH
SshConfigPath   == "q"        \* cls._SSH_CONFIG_PATH
KnownHostsPath  == "s"        \* cls._KNOWN_HOSTS_PATH

\* the keys of cls._errors: the name of a method, the path of a program,
\* the call of _check_dir that failed
KnownHostsKey   == "_update_user_known_hosts"
SshdKey         == "SSHD_BIN"
KeyscanKey      == "SSH_KEYSCAN_BIN"
KeygenKey       == "SSH_KEYGEN_BIN"
CheckDirKey     == "_check_dir"

\* what runCommand returns for ssh-keyscan: exit status and output ("" when
\* it printed nothing)
Scans4 == { [rc |-> rc, out |-> o] : rc \in {0, 1}, o \in {"", "4"} }
Scans6 == { [rc |-> rc, out |-> o] : rc \in {0, 1}, o \in {"", "6"} }

\* cls.SSH_ENVIRONMENT as the lines _generate_environment_file prints: the
\* default {} and a dict of one item
Environments == { <<>>, <<"e">> }

\* the class before any of its methods ran; envfile, environment and updcfg
\* are the class attributes SSH_ENVIRONMENT_FILE, SSH_ENVIRONMENT and
\* UPDATE_SSH_CONFIG, py is the interpreter that runs the class; gathered
\* tells whether the class has the attributes <FILE>_PATH of its generated
\* files (_gather_config sets them) and chmod whether cls._NEED_CHMOD lists
\* a directory; handle is cls._SSHD is not None, reaped that the Popen
\* object has the exit status of its process (returncode is not None);
\* torn tells whether the last call of a method called tearDownClass.
\* The generated files themselves (keys, sshd_config, authorized_keys) are
\* not part of the state: the steps that make or delete them are modelled
\* by how they end.
HarnessClass(envfile, environment, updcfg, py, gathered) ==
  [ pc |-> "loaded", envfile |-> envfile, environment |-> environment,
    updcfg |-> updcfg, py |-> py, gathered |-> gathered, chmod |-> FALSE,
    errors |-> {}, sshd |-> FALSE, handle |-> FALSE, reaped |-> FALSE, runs |-> 0,
    pre |-> [ p \in Paths |-> [ex |-> FALSE, c |-> <<>>] ],
    edited |-> {}, scans |-> <<>>, recorded |-> {}, torn |-> FALSE,
    exc |-> "none" ]

\* the state of the user's files
Snapshot(S) == [ p \in Paths |-> FileState(S.names, S.data, TargetName(p)) ]

\* a method of the class in progress: the files and editors, the class, and
\* how the method ended ("none" while it runs, "skip" once _skip raised
\* SkipTest, else the exception that left it)
Running(S, H) == [s |-> S, h |-> H, end |-> "none"]

\* the interpreter that runs the class
Interpreter(H) == H.py

\* a method raises exc, unless it was left by an exception already
Raise(X, exc) == IF X.end = "none" THEN [X EXCEPT !.end = exc] ELSE X

\* logger.debug(_(message).format(...)): the first statement of runCommand
\* and of _delete_file, and of the loop of _restore_modes
DoLogMessage(X) ==
  IF MessageFails(Interpreter(X.h)) THEN Raise(X, "AttributeError") ELSE X

\* ---- with BackupEditAndRestore(c, p, m) as f: f.write(t) for t in texts ---
RECURSIVE WriteAll(_, _, _)
WriteAll(S, e, texts) ==
  IF texts = <<>> THEN S
  ELSE Bind(DoWrite(S, e, Head(texts)),
            LAMBDA W : WriteAll(W, e, Tail(texts)))

\* The block writes the texts and then completes (raised = "ok") or raises.
\* __exit__ is called either way; the exception of the block propagates
\* unless __exit__ raises one itself.  entered tells whether the block was
\* entered.
WithEditor(S, py, c, p, m, texts, raised) ==
  Bind(DoConstruct(S, py, c, p, m), LAMBDA k :
    IF k.err # "ok" THEN [s |-> k.s, err |-> k.err, entered |-> FALSE]
    ELSE Bind(DoEnter(k.s, k.ed), LAMBDA en :
      IF en.err # "ok" THEN [s |-> en.s, err |-> en.err, entered |-> FALSE]
      ELSE Bind(WriteAll(en.s, k.ed, texts), LAMBDA W :
        Bind(DoExit(W, k.ed), LAMBDA ex :
          [s |-> ex.s, err |-> IF ex.err # "ok" THEN ex.err ELSE raised,
           entered |-> TRUE]))))

\* a `with` block as a step of a method
EditStep(X, p, m, texts, raised) ==
  Bind(WithEditor(X.s, Interpreter(X.h), HarnessContext, p, m, texts, raised),
       LAMBDA w :
    [ s |-> w.s,
      h |-> IF w.entered THEN [X.h EXCEPT !.edited = @ \cup {p}] ELSE X.h,
      end |-> IF w.err = "ok" THEN "none" ELSE w.err ])

\* A step runs only while the method is still running.
Then(X, Step(_)) ==
  Bind(X, LAMBDA x : IF x.end # "none" THEN x ELSE Step(x))

\* ---- tearDownClass and _skip ----------------------------------------------
\* what the environment decides during a tearDownClass: whether the poll()
\* of _kill_sshd finds the process dead and takes its exit status, and the
\* order in which the dict of the context lists its keys.  The poll has an
\* outcome to choose only if the method terminates a process whose exit
\* status was not taken (kills); K is the set of the keys of the dict.
TearDownInputs(py, kills, K) ==
  { [reaps |-> r, ord |-> o] :
      r \in IF kills THEN BOOLEAN ELSE {FALSE},
      o \in KeyOrders(py, K) }

\* the inputs of a tearDownClass called on the class as it is
TearDownNow ==
  TearDownInputs(Interpreter(hs), hs.handle /\ ~hs.reaped,
                 RegisteredPaths(Cur, HarnessContext))

\* the files of the user a setUpClass edits if it gets to them
ClassFiles(H) ==
  {KnownHostsPath} \cup (IF H.envfile THEN {EnvironmentPath} ELSE {})
                   \cup (IF H.updcfg THEN {SshConfigPath} ELSE {})

\* _kill_sshd: cls._SSHD.terminate(); cls._SSHD.poll().  On a Popen object
\* that has the exit status already, terminate() of Python 3 returns at
\* once, that of Python 2.7 calls os.kill on a process that is gone and
\* raises OSError.
DoKillSshd(X, reaps) ==
  IF X.h.reaped
  THEN (IF Interpreter(X.h) = "2.7" THEN Raise(X, "OSError") ELSE X)
  ELSE [X EXCEPT !.h.sshd = FALSE, !.h.reaped = reaps]

\* _delete_file(file): the message is logged, then the file is unlinked if
\* it is there (an exception of os.unlink is logged, not raised)
DoDeleteFile(X) == DoLogMessage(X)

\* the loop of tearDownClass over cls._FILES: _delete_file is called for the
\* files whose <FILE>_PATH attribute is set, the pid file left out; the
\* first call that raises ends the loop
DoDeleteFiles(X) == IF X.h.gathered THEN DoDeleteFile(X) ELSE X

\* _restore_modes: for each directory of cls._NEED_CHMOD the message is
\* logged, then the mode is set back; the list is left as it is
DoRestoreModes(X) == IF X.h.chmod THEN DoLogMessage(X) ELSE X

\* BackupEditAndRestore.clear_context(cls._context_name)
DoClearHarnessContext(X, ord) ==
  Bind(DoClearContext(X.s, Interpreter(X.h), HarnessContext, ord), LAMBDA r :
    [ s |-> r.s, h |-> X.h, end |-> IF r.err = "ok" THEN X.end ELSE r.err ])

\* tearDownClass: LANG is put back in the environment (not a part of the
\* state here); if cls._SSHD is not None: _kill_sshd(); the generated
\* files are deleted; BackupEditAndRestore.clear_context(cls._context_name);
\* _restore_modes().  cls._SSHD is left as it is.  An exception ends the
\* method where it is raised.
DoTearDownClass(X, in) ==
  LET k == IF X.h.handle THEN DoKillSshd(X, in.reaps) ELSE X
      d == Then(k, DoDeleteFiles)
      c == Then(d, LAMBDA x : DoClearHarnessContext(x, in.ord))
  IN Then(c, DoRestoreModes)

\* (a _skip that raises SkipTest without cleaning up)
DoSkipNoTearDown(X, in) == [X EXCEPT !.end = "skip"]

\* _skip: tearDownClass(), then raise SkipTest
DoSkip(X, in) ==
  Bind(DoTearDownClass([X EXCEPT !.h.torn = TRUE], in), LAMBDA t :
    IF t.end # "none" THEN t ELSE [t EXCEPT !.end = "skip"])

\* ---- runCommand -----------------------------------------------------------
\* runCommand(cmd): the message is logged, then the command is run; what the
\* command returns is an input of the method that calls runCommand
DoRunCommand(X) == DoLogMessage(X)

\* ---- _update_user_known_hosts ---------------------------------------------
\* if 0 != returncode or 0 == len(out)
ScanFailed(sc) == sc.rc # 0 \/ sc.out = ""

\* (a report as soon as one scan failed)
ReportsOneFailure(failures) == Len(failures) >= 1

\* if len(failures) == 2
ReportsFailure(failures) == Len(failures) = 2

\* the for loop: what is written to known_hosts, and the failures
ScanTexts(scans) ==
  LET ok == SelectSeq(scans, LAMBDA sc : ~ScanFailed(sc)) IN
  [ i \in 1..Len(ok) |-> ok[i].out ]
ScanFailures(scans) == SelectSeq(scans, ScanFailed)

\* The `with` block runs the two scans through runCommand.  If runCommand
\* raises, it does so for the first scan, before the command is run: the
\* block is left with nothing written and no scan made.
DoUpdateUserKnownHosts(X, s4, s6) ==
  LET run == DoRunCommand(X)
      scans == IF run.end = "none" THEN <<s4, s6>> ELSE <<>>
      raised == IF run.end = "none" THEN "ok" ELSE run.end
  IN
  Bind(EditStep(X, KnownHostsPath, <<"a">>, ScanTexts(scans), raised), LAMBDA w :
    IF w.end # "none"
    THEN \* the constructor or the block raised: no scan was completed
         [w EXCEPT !.h.scans = <<>>]
    ELSE LET rec == IF ReportsFailure(ScanFailures(scans))
                    THEN {KnownHostsKey} ELSE {}
         IN [w EXCEPT !.h.scans = scans, !.h.recorded = @ \cup rec,
                      !.h.errors = @ \cup rec])

\* ---- setUpClass -----------------------------------------------------------
\* _gather_config: the <FILE>_PATH attributes the class does not have are
\* set
DoGatherConfig(X) == [X EXCEPT !.h.gathered = TRUE]

\* what _preconditions finds: whether the calls of _check_dir succeed, and
\* for each of the programs sshd, ssh-keyscan and ssh-keygen whether it is
\* there and can be read and executed ("ok"), is not a file ("missing"), or
\* is a file that os.access refuses ("noaccess")
ProgramKeys == <<SshdKey, KeyscanKey, KeygenKey>>
ProgramStates == {"ok", "missing", "noaccess"}
AllFound == [dirs |-> TRUE, progs |-> <<"ok", "ok", "ok">>]
Findings ==
  { [AllFound EXCEPT !.dirs = d] : d \in BOOLEAN } \cup
  { [AllFound EXCEPT !.progs[i] = st] :
      i \in 1..3, st \in ProgramStates \ {"ok"} } \cup
  { [AllFound EXCEPT !.dirs = FALSE, !.progs[1] = st] :
      st \in ProgramStates \ {"ok"} }

Record(X, key) ==
  [X EXCEPT !.h.errors = @ \cup {key}, !.h.recorded = @ \cup {key}]

\* _check_auxiliary_program(path) for the programs from the i-th on: a
\* missing program is recorded under its path; for a file that os.access
\* refuses the message is built from res.st_mode, res being False, which
\* raises AttributeError
RECURSIVE CheckPrograms(_, _, _)
CheckPrograms(X, progs, i) ==
  IF i > Len(progs) THEN X
  ELSE IF progs[i] = "noaccess" THEN [X EXCEPT !.end = "AttributeError"]
  ELSE CheckPrograms(IF progs[i] = "missing" THEN Record(X, ProgramKeys[i]) ELSE X,
                     progs, i + 1)

\* pc_met: every check returned True
Met(found) == found.dirs /\ \A i \in 1..3 : found.progs[i] = "ok"

\* _preconditions: every check is made, a check that fails records an
\* error, and _skip is called if one of them failed
DoPreconditions(X, found, in) ==
  Bind(CheckPrograms(IF found.dirs THEN X ELSE Record(X, CheckDirKey),
                     found.progs, 1), LAMBDA x :
    IF x.end # "none" \/ Met(found) THEN x ELSE DoSkip(x, in))

\* _generate_sshd_config(args): the configuration of the daemon is written
\* to cls.SSHD_CONFIG_PATH
DoGenerateSshdConfig(X) == X

\* _protect_private_keys: a directory above the keys whose mode has a bit
\* outside cls._MODE_MASK (loose) goes to cls._NEED_CHMOD and is chmod-ed
DoProtectPrivateKeys(X, loose) == [X EXCEPT !.h.chmod = @ \/ loose]

\* _generate_keys: for each key the old file is unlinked and ssh-keygen is
\* run through runCommand; RuntimeError is raised when ssh-keygen fails
\* (generated tells that it does not)
DoGenerateKeys(X, generated) ==
  Then(DoRunCommand(X), LAMBDA x :
    IF generated THEN x ELSE [x EXCEPT !.end = "RuntimeError"])

\* _generate_authzd_keys_file: the public key of the user is written to
\* cls.AUTHORIZED_KEYS_PATH (without options: cls.SSH_ENVIRONMENT is empty
\* unless SSH_ENVIRONMENT_FILE is set)
DoGenerateAuthzdKeysFile(X) == X

\* _generate_environment_file
DoGenerateEnvironmentFile(X) ==
  IF ~X.h.envfile THEN X
  ELSE EditStep(X, EnvironmentPath, <<"w", "+", "t">>, X.h.environment, "ok")

\* the waiting loop of _start_sshd: for round in range(0, 6), a poll of the
\* pid file, then a sleep if it is not there and a break if it is.  `first`
\* is the poll on which the pid file is there for the first time,
\* Polls + 1 if it never is.  The loop yields the value `round` is left
\* with and the number of sleeps.
Polls == 6
FailRound == 5
Appearances == 1..(Polls + 1)
PidFileAt(k, first) == first <= k

RECURSIVE WaitForPidFile(_, _)
WaitForPidFile(round, first) ==
  IF PidFileAt(round + 1, first) THEN [round |-> round, sleeps |-> round]
  ELSE IF round + 1 = Polls THEN [round |-> round, sleeps |-> round + 1]
  ELSE WaitForPidFile(round + 1, first)

\* if round >= 5
StartFailed(w) == w.round >= FailRound

\* _start_sshd: the command is made of cls.SSHD_CONFIG_PATH, which a class
\* that was not gathered does not have (AttributeError); cls._SSHD =
\* Popen(...), the waiting loop, and on a failure _kill_sshd(), cls._SSHD =
\* None, the error and _skip(); started tells whether the loop took the
\* daemon as started
DoStartSshd(X, started, in) ==
  IF ~X.h.gathered THEN Raise(X, "AttributeError")
  ELSE IF started
  THEN [X EXCEPT !.h.sshd = TRUE, !.h.handle = TRUE, !.h.reaped = FALSE]
  ELSE DoSkip(Record([X EXCEPT !.h.sshd = FALSE, !.h.handle = FALSE,
                               !.h.reaped = FALSE], SshdKey), in)

\* _update_ssh_config
DoUpdateSshConfig(X) ==
  IF ~X.h.updcfg THEN X
  ELSE EditStep(X, SshConfigPath, <<"a">>, <<"c">>, "ok")

\* if cls._errors: cls._skip()
DoCheckErrors(X, in) == IF X.h.errors # {} THEN DoSkip(X, in) ELSE X

\* the class at the start of a call of one of its methods
Called(H, S) ==
  [H EXCEPT !.runs = @ + 1, !.pre = Snapshot(S), !.edited = {},
            !.scans = <<>>, !.recorded = {}, !.torn = FALSE]

\* setUpClass up to its last statement
DoSetUpSteps(S, H, found, loose, generated, started, s4, s6, in) ==
  LET x0 == DoGatherConfig(Running(S, Called(H, S)))
      x1 == Then(x0, LAMBDA x : DoPreconditions(x, found, in))
      x2 == Then(x1, DoGenerateSshdConfig)
      x3 == Then(x2, LAMBDA x : DoProtectPrivateKeys(x, loose))
      x4 == Then(x3, LAMBDA x : DoGenerateKeys(x, generated))
      x5 == Then(x4, DoGenerateAuthzdKeysFile)
      x6 == Then(x5, DoGenerateEnvironmentFile)
      x7 == Then(x6, LAMBDA x : DoStartSshd(x, started, in))
      x8 == Then(x7, DoUpdateSshConfig)
  IN Then(x8, LAMBDA x : DoUpdateUserKnownHosts(x, s4, s6))

\* setUpClass: the steps, then `if cls._errors: cls._skip()`
DoSetUpClass(P, in) == Then(P, LAMBDA x : DoCheckErrors(x, in))

\* where the class is once a method has ended
Ended(X, normally) ==
  [X.h EXCEPT !.pc = IF X.end = "none" THEN normally
                     ELSE IF X.end = "skip" THEN "skipped" ELSE "failed",
              !.exc = IF X.end \in {"none", "skip"} THEN "none" ELSE X.end]

\* ---- actions --------------------------------------------------------------
InstallHarness(X, normally) ==
  /\ Install(X.s)
  /\ hs' = Ended(X, normally)
  /\ UNCHANGED <<last, vcs, td, io>>

\* A setUpClass runs tearDownClass only through _skip, which ends it, and
\* the tearDownClass takes its inputs when it runs: in _preconditions if a
\* check fails, when nothing of this run is there to restore; in _start_sshd
\* if the daemon is not taken as started, when its process was terminated
\* and only the environment file was edited; in the last statement if
\* cls._errors is not empty, on the class as the steps left it.
NoTearDown == [reaps |-> FALSE, ord |-> InsertionOrder]

StepInputs(H, S, found, generated, started) ==
  LET py == Interpreter(H)
      K  == RegisteredPaths(S, HarnessContext)
  IN
  IF ~Met(found) THEN TearDownInputs(py, H.handle /\ ~H.reaped, K)
  ELSE IF generated /\ ~started
  THEN TearDownInputs(py, FALSE, K \cup (ClassFiles(H) \cap {EnvironmentPath}))
  ELSE {NoTearDown}

LastInputs(P) ==
  IF P.end = "none" /\ P.h.errors # {}
  THEN TearDownInputs(Interpreter(P.h), P.h.handle /\ ~P.h.reaped,
                      RegisteredPaths(P.s, HarnessContext))
  ELSE {NoTearDown}

\* the test runner sets the class up; it does so again for a later run
SetUpClass(found, loose, generated, started, s4, s6) ==
  /\ hs.pc \in {"loaded", "skipped", "down", "failed"}
  /\ hs.runs < MaxRuns
  /\ \E in \in StepInputs(hs, Cur, found, generated, started) :
     \E P \in {DoSetUpSteps(Cur, hs, found, loose, generated, started,
                            s4, s6, in)} :
     \E fin \in LastInputs(P) :
     \E X \in {DoSetUpClass(P, fin)} :
       InstallHarness(X, "up")

\* the test runner tears down a class whose setUpClass returned; nothing
\* in tearDownClass keeps it from being called again
TearDownClass ==
  /\ hs.pc \in {"up", "down"}
  /\ \E in \in TearDownNow :
     \E X \in {DoTearDownClass(Running(Cur, [hs EXCEPT !.torn = TRUE]), in)} :
       InstallHarness(X, "down")

\* a direct call of _update_user_known_hosts on a class that is not set up
UpdateUserKnownHosts(s4, s6) ==
  /\ hs.pc \in {"loaded", "scanned"}
  /\ hs.runs < MaxRuns
  /\ \E X \in {DoUpdateUserKnownHosts(Running(Cur, Called(hs, Cur)), s4, s6)} :
       InstallHarness(X, "scanned")

\* what the caller of _update_user_known_hosts does afterwards:
\* clear_context(cls._context_name), and then cls._errors = dict()
ForgetKnownHosts ==
  /\ hs.pc \in {"scanned", "failed"}
  /\ hs.runs > 0
  /\ \E in \in TearDownNow :
     \E r \in {DoClearContext(Cur, Interpreter(hs), HarnessContext, in.ord)} :
     /\ Install(r.s)
     /\ hs' = IF r.err = "ok"
              THEN [hs EXCEPT !.pc = "loaded", !.errors = {}, !.exc = "none",
                              !.scans = <<>>, !.recorded = {}]
              ELSE [hs EXCEPT !.pc = "failed", !.exc = r.err]
  /\ UNCHANGED <<last, vcs, td, io>>

\* ---- specifications of the harness ----------------------------------------
\* the files of the user before the class is set up: absent, or with a
\* content (a file the class is not set to edit is left out);
\* SSH_ENVIRONMENT is looked at only if SSH_ENVIRONMENT_FILE is set
UserFiles == { [ex |-> FALSE, c |-> <<>>], [ex |-> TRUE, c |-> <<"a", "b">>] }
ClassEnvironments ==
  { <<FALSE, <<>>>> } \cup { <<TRUE, e>> : e \in Environments }

\* a class that has, or has not, the paths of its generated files
InitHarnessOf(G) ==
  /\ InitFilesIn(Paths, UserFiles)
  /\ InitClass
  /\ \E ev \in ClassEnvironments, updcfg \in BOOLEAN, py \in Interpreters,
        gathered \in G :
       /\ hs = HarnessClass(ev[1], ev[2], updcfg, py, gathered)
       /\ \A p \in Paths \ ClassFiles(hs) : ~IsFile(names, TargetName(p))
  /\ vcs = VcsIdle
  /\ td = TempDirIdle
  /\ io = CaptureIdle

\* the class as it is loaded: setUpClass gathers the paths
InitHarness == InitHarnessOf({FALSE})

\* A setUpClass that does not reach a step does not use the input of that
\* step: the inputs of the steps not reached are fixed.
NoScan == [rc |-> 1, out |-> ""]

\* the scans of a whole setUpClass: each succeeds or fails
SetUpScans4 == { [rc |-> 0, out |-> "4"], NoScan }
SetUpScans6 == { [rc |-> 0, out |-> "6"], NoScan }

NextHarness ==
  \/ \E found \in Findings \ {AllFound} :
       SetUpClass(found, FALSE, FALSE, FALSE, NoScan, NoScan)
  \/ \E loose \in BOOLEAN :
       SetUpClass(AllFound, loose, FALSE, FALSE, NoScan, NoScan)
  \/ SetUpClass(AllFound, FALSE, TRUE, FALSE, NoScan, NoScan)
  \/ \E s4 \in SetUpScans4, s6 \in SetUpScans6 :
       SetUpClass(AllFound, FALSE, TRUE, TRUE, s4, s6)
  \/ TearDownClass

SpecHarness == InitHarness /\ [][NextHarness]_vars

InitKnownHosts ==
  /\ InitFiles({KnownHostsPath})
  /\ InitClass
  /\ \E py \in Interpreters : hs = HarnessClass(FALSE, <<>>, FALSE, py, FALSE)
  /\ vcs = VcsIdle
  /\ td = TempDirIdle
  /\ io = CaptureIdle

NextKnownHosts ==
  \/ \E s4 \in Scans4, s6 \in Scans6 : UpdateUserKnownHosts(s4, s6)
  \/ ForgetKnownHosts

SpecKnownHosts == InitKnownHosts /\ [][NextKnownHosts]_vars

\* ---- _start_sshd on its own ------------------------------------------------
\* the record of a call of _start_sshd: the poll on which the pid file was
\* first there, the value the loop left in `round`, the sleeps, and how the
\* call ended
SshdCall(op, first, w, end) ==
  [op |-> op, first |-> first, round |-> w.round, sleeps |-> w.sleeps,
   end |-> end]

\* the loop is not reached: no poll is made and `round` has no value (-1)
NoWait == [round |-> -1, sleeps |-> 0]

\* a direct call of _start_sshd, as test_start_sshd_failure and
\* test_start_sshd_success make it
StartSshd(first) ==
  /\ hs.pc \in {"loaded", "down"}
  /\ hs.runs < MaxRuns
  /\ \E w \in {IF hs.gathered THEN WaitForPidFile(0, first) ELSE NoWait} :
     \E in \in TearDownNow :
     \E X \in {DoStartSshd(
                  Running(Cur, [hs EXCEPT !.runs = @ + 1, !.recorded = {},
                                          !.torn = FALSE]),
                  ~StartFailed(w), in)} :
       /\ Install(X.s)
       /\ hs' = Ended(X, "started")
       /\ last' = SshdCall("start_sshd", first, w, X.end)
  /\ UNCHANGED <<vcs, td, io>>

\* the tearDown of these tests: tearDownClass(), and then the errors are
\* deleted
TearDownSshd ==
  /\ hs.pc \in {"started", "skipped", "failed"}
  /\ \E in \in TearDownNow :
     \E X \in {DoTearDownClass(Running(Cur, [hs EXCEPT !.torn = TRUE]), in)} :
     /\ Install(X.s)
     /\ hs' = [Ended(X, "down") EXCEPT
                !.errors = IF X.end = "none" THEN {} ELSE @]
     /\ last' = [last EXCEPT !.op = "tearDown"]
  /\ UNCHANGED <<vcs, td, io>>

NextSshd ==
  \/ \E first \in Appearances : StartSshd(first)
  \/ TearDownSshd

\* the class as the setUp of these tests leaves it (_gather_config() was
\* called), and a class that has not the paths yet
SpecSshd == InitHarnessOf(BOOLEAN) /\ [][NextSshd]_vars

\* ==== ssh_harness.contexts.InThrowableTempDir ==============================
MaxDepth == 2          \* `with` blocks on the object open at the same time

\* the directories: where the program starts, another directory, the
\* temporary directory self._dir and a directory the body makes inside it
StartDir == "W"
OtherDir == "O"
TempDir  == "T"
SubDir   == "T/sub"
Dirs     == {StartDir, OtherDir, TempDir, SubDir}

\* the last call on the object: the exception it raised ("ok" if none),
\* whether it warned, and for __exit__ the exception of the body ("none" if
\* it completed) and the value returned
TdNoCall == [op |-> "none", err |-> "ok", warned |-> FALSE,
             body |-> "none", res |-> "None"]

\* before InThrowableTempDir(...) is called, the program being in directory d
TempDirNone(d) ==
  [ pc |-> "none", cwd |-> d, temp |-> FALSE, sub |-> FALSE, locked |-> FALSE,
    linked |-> FALSE,
    oldpwd |-> "None", depth |-> 0, first |-> "None", last |-> TdNoCall ]

\* os.path.isdir(d)
DirExists(t, d) ==
  IF d = TempDir THEN t.temp
  ELSE IF d = SubDir THEN t.temp /\ t.sub
  ELSE TRUE

\* the dir argument of InThrowableTempDir(...): left out (None), a
\* directory the user cannot write to, a directory, or a symbolic link to a
\* directory
DirArgs == {"None", "unwritable", "directory", "symlink"}

\* the exceptions that leave __init__: os.path.abspath(None) raises TypeError
\* (AttributeError with Python 2), mkdtemp raises OSError in a directory
\* that cannot be written to
InitErrors(arg) ==
  IF arg = "None" THEN {"TypeError", "AttributeError"}
  ELSE IF arg = "unwritable" THEN {"OSError"}
  ELSE {"ok"}

\* __init__: mkdtemp creates the directory; self._oldpwd = None.  self._dir
\* is abspath(dir) + name: it keeps a symbolic link dir was given through
DoTempDirInit(t, arg, err) ==
  IF err # "ok"
  THEN [t EXCEPT !.last = [TdNoCall EXCEPT !.op = "init", !.err = err]]
  ELSE [t EXCEPT !.pc = "made", !.temp = TRUE, !.sub = FALSE, !.locked = FALSE,
                 !.oldpwd = "None",
                 !.linked = (arg = "symlink"),
                 !.last = [TdNoCall EXCEPT !.op = "init"]]

\* os.getcwd() != self._dir compares strings: os.getcwd() is a resolved
\* path, and differs from a self._dir that goes through a symbolic link
\* even in the temporary directory
CwdIsDir(t) == t.cwd = TempDir /\ ~t.linked

\* os.chdir(d): the exception it raises, "ok" if none
ChdirError(t, d) ==
  IF d = "None" THEN "TypeError"
  ELSE IF ~DirExists(t, d) THEN "OSError"
  ELSE "ok"

\* self._oldpwd = os.getcwd()
SavedOldPwd(t) == t.cwd

\* __enter__
DoTempDirEnter(t) ==
  IF ~DirExists(t, t.cwd)
  THEN \* os.getcwd() raises in a directory that was removed
       [t |-> t, err |-> "OSError", warned |-> FALSE]
  ELSE IF ~CwdIsDir(t)
  THEN LET s == [t EXCEPT !.oldpwd = SavedOldPwd(t)] IN
       IF ChdirError(s, TempDir) # "ok"
       THEN [t |-> s, err |-> ChdirError(s, TempDir), warned |-> FALSE]
       ELSE [t |-> [s EXCEPT !.cwd = TempDir], err |-> "ok", warned |-> FALSE]
  ELSE \* warnings.warn("Already in the temporary directory !")
       [t |-> t, err |-> "ok", warned |-> TRUE]

\* shutil.rmtree(self._dir, onerror=ignore): every error is ignored, so a
\* directory that cannot be emptied stays, and the temporary directory
\* with it
Rmtree(t) ==
  IF t.temp /\ t.sub /\ t.locked THEN t
  ELSE [t EXCEPT !.temp = FALSE, !.sub = FALSE, !.locked = FALSE]

\* __exit__(exc_type, ...), the body having raised x or completed ("none")
DoTempDirExit(t, x) ==
  IF ChdirError(t, t.oldpwd) # "ok"
  THEN \* os.chdir raises: nothing after it runs
       [t |-> t, err |-> ChdirError(t, t.oldpwd), res |-> "None"]
  ELSE [t |-> Rmtree([t EXCEPT !.cwd = t.oldpwd]), err |-> "ok",
        res |-> IF x # "none" THEN "False" ELSE "True"]

\* ---- actions --------------------------------------------------------------
TempDirStep(t) ==
  /\ td' = t
  /\ UNCHANGED <<names, data, eds, reg, known, last, vcs, hs, io>>

TempDirConstruct(arg) ==
  /\ td.pc = "none"
  /\ \E err \in InitErrors(arg) : TempDirStep(DoTempDirInit(td, arg, err))

\* the `with` statement on the object begins
TempDirEnter ==
  /\ td.pc = "made"
  /\ td.depth < MaxDepth
  /\ LET r == DoTempDirEnter(td) IN
     TempDirStep([r.t EXCEPT
       !.depth = IF r.err = "ok" THEN @ + 1 ELSE @,
       !.first = IF r.err = "ok" /\ td.depth = 0 THEN td.cwd ELSE @,
       !.last = [TdNoCall EXCEPT !.op = "enter", !.err = r.err,
                                 !.warned = r.warned]])

\* the program makes a directory in the temporary directory; when locked,
\* it puts a file in it and takes away the right to write to the directory
\* (chmod 0500), so that the file cannot be removed
TempDirMkdir(locked) ==
  /\ td.pc = "made"
  /\ td.cwd = TempDir /\ td.temp /\ ~td.sub
  /\ TempDirStep([td EXCEPT !.sub = TRUE, !.locked = locked,
                            !.last = [TdNoCall EXCEPT !.op = "mkdir"]])

\* the program changes directory: os.chdir(d), d existing
TempDirChdir(d) ==
  /\ td.pc = "made"
  /\ d # td.cwd
  /\ DirExists(td, d)
  /\ TempDirStep([td EXCEPT !.cwd = d, !.last = [TdNoCall EXCEPT !.op = "chdir"]])

\* the innermost `with` block ends, its body having raised x or completed
TempDirExit(x) ==
  /\ td.pc = "made"
  /\ td.depth > 0
  /\ LET r == DoTempDirExit(td, x) IN
     TempDirStep([r.t EXCEPT
       !.depth = @ - 1,
       !.last = [TdNoCall EXCEPT !.op = "exit", !.err = r.err,
                                 !.body = x, !.res = r.res]])

InitTempDir ==
  /\ NoFiles
  /\ vcs = VcsIdle
  /\ hs = HarnessIdle
  /\ \E d \in {StartDir, OtherDir} : td = TempDirNone(d)
  /\ io = CaptureIdle

NextTempDir ==
  \/ \E arg \in DirArgs : TempDirConstruct(arg)
  \/ TempDirEnter
  \/ \E locked \in BOOLEAN : TempDirMkdir(locked)
  \/ \E d \in Dirs : TempDirChdir(d)
  \/ \E x \in BodyOutcomes : TempDirExit(x)

SpecTempDir == InitTempDir /\ [][NextTempDir]_vars

\* ==== ssh_harness.contexts.IOCapture =======================================
MaxCaptures == 2       \* IOCapture objects constructed in a run
MaxTexts    == 2       \* texts the program writes to sys.stdout / sys.stderr
MaxBlocks   == 2       \* `with` blocks on IOCapture objects begun in a run

\* the names of the two streams, as _get_output takes them
StreamNames == {"stdout", "stderr"}

\* the stream objects: the one the interpreter started with, and the
\* MemoryIO that the k-th IOCapture made for a stream it captures
RealStream(n) == <<0, n>>
CaptureStream(k, n) == <<k, n>>
Streams == (0..MaxCaptures) \X StreamNames
NoStream == <<0, "none">>

\* the streams in place: sys.stdout and sys.stderr
NoStreams == [n \in StreamNames |-> NoStream]

\* the last call: the object and the stream name it was about, the exception
\* raised ("ok" if none), the text returned, and for an __exit__ that ends a
\* `with` block the streams that were in place when the block began
CaptureNoCall == [op |-> "none", obj |-> 0, name |-> "none", err |-> "ok",
                  res |-> <<>>, pre |-> NoStreams]

\* the program before any IOCapture is made, run by the interpreter py:
\* sys.stdout and sys.stderr are the interpreter's streams,
\* nothing was written.  stack holds the `with` blocks that are open, the
\* innermost first: the object, and the streams in place when it began;
\* blocks counts the blocks begun and written the texts written
CaptureStart(py) ==
  [ pc |-> "run",
    py |-> py,
    cur |-> [n \in StreamNames |-> RealStream(n)],
    text |-> [s \in Streams |-> <<>>],
    objs |-> <<>>,
    stack |-> <<>>,
    blocks |-> 0,
    written |-> 0,
    last |-> CaptureNoCall ]

\* _prepare_attrs (module 'sys'): remember the stream in place, make a
\* MemoryIO, or a temporary file when file is True; a stream that is not
\* captured has no _old attribute.  st tells whether a `with` block on the
\* object was never open ("made"), is open ("active") or was open and none
\* is any more ("exited"); win holds the texts written to each stream while
\* a block on the object was open
NewCapture(c, stdout, stderr, file) ==
  LET k  == Len(c.objs) + 1
      do == [n \in StreamNames |-> IF n = "stdout" THEN stdout ELSE stderr]
  IN [ do   |-> do,
       file |-> file,
       old  |-> [n \in StreamNames |-> IF do[n] THEN c.cur[n] ELSE NoStream],
       std  |-> [n \in StreamNames |->
                   IF do[n] THEN CaptureStream(k, n) ELSE c.cur[n]],
       st   |-> "made",
       win  |-> [n \in StreamNames |-> <<>>] ]

\* raise RuntimeError(_(message).format(...)): the message is made before
\* the exception is
MessageError(py) == IF MessageFails(py) THEN "AttributeError" ELSE "RuntimeError"

\* __init__(stdout, stderr, file, module): RuntimeError if the module is not
\* loaded
DoCaptureInit(c, loaded, stdout, stderr, file) ==
  IF ~loaded
  THEN [c EXCEPT !.last = [CaptureNoCall EXCEPT !.op = "init",
                                                !.err = MessageError(c.py)]]
  ELSE [c EXCEPT !.objs = Append(@, NewCapture(c, stdout, stderr, file)),
                 !.last = [CaptureNoCall EXCEPT !.op = "init",
                                                !.obj = Len(c.objs) + 1]]

\* __enter__: setattr(target, attr, self.stdout / self.stderr)
DoCaptureEnter(c, k) ==
  [c EXCEPT !.cur = [n \in StreamNames |->
                       IF c.objs[k].do[n] THEN c.objs[k].std[n] ELSE c.cur[n]]]

\* __exit__: setattr(target, attr, self._oldout / self._olderr)
DoCaptureExit(c, k) ==
  [c EXCEPT !.cur = [n \in StreamNames |->
                       IF c.objs[k].do[n] THEN c.objs[k].old[n] ELSE c.cur[n]]]

\* the stream is a MemoryIO (io.StringIO) that an IOCapture made
IsMemoryIO(c, s) == s[1] # 0 /\ ~c.objs[s[1]].file

\* the exception sys.<n>.write(t) raises, "ok" if none: with Python 2.7 an
\* io.StringIO takes unicode texts only and raises TypeError for a native
\* str; a temporary file and the streams of the interpreter take both
WriteError(c, n, native) ==
  IF c.py = "2.7" /\ native /\ IsMemoryIO(c, c.cur[n]) THEN "TypeError" ELSE "ok"

\* sys.<n>.write(t), t being a native str or a unicode text
DoSysWrite(c, n, t, native) ==
  IF WriteError(c, n, native) # "ok" THEN c
  ELSE [c EXCEPT !.text[c.cur[n]] = Append(@, t)]

\* attr == getattr(self._<what>_target, self._<what>_attr)
InContext(c, k, n) == c.objs[k].std[n] = c.cur[n]

\* _get_output(name)
DoGetOutput(c, k, n) ==
  IF ~c.objs[k].do[n] THEN [err |-> "ok", res |-> <<>>]
  ELSE IF InContext(c, k, n) THEN [err |-> MessageError(c.py), res |-> <<>>]
  ELSE [err |-> "ok", res |-> c.text[c.objs[k].std[n]]]

\* ---- actions --------------------------------------------------------------
CaptureStep(c) ==
  /\ io' = c
  /\ UNCHANGED <<names, data, eds, reg, known, last, vcs, hs, td>>

CaptureConstruct(loaded, stdout, stderr, file) ==
  /\ io.pc = "run"
  /\ Len(io.objs) < MaxCaptures
  /\ CaptureStep(DoCaptureInit(io, loaded, stdout, stderr, file))

\* the position in the stack of the innermost open block of object k, 0 if
\* no block of k is open
BlockOf(stack, k) ==
  IF \E i \in 1..Len(stack) : stack[i].obj = k
  THEN MinOfSet({ i \in 1..Len(stack) : stack[i].obj = k })
  ELSE 0

\* k.__enter__(): a `with` block on the object begins, whether or not a
\* block on it is open or was open before; the streams in place are noted
CaptureEnter(k) ==
  /\ io.pc = "run"
  /\ k \in 1..Len(io.objs)
  /\ Len(io.stack) < MaxDepth
  /\ io.blocks < MaxBlocks
  /\ CaptureStep([DoCaptureEnter(io, k) EXCEPT
       !.objs[k].st = "active",
       !.blocks = @ + 1,
       !.stack = <<[obj |-> k, pre |-> io.cur]>> \o @,
       !.last = [CaptureNoCall EXCEPT !.op = "enter", !.obj = k]])

\* k.__exit__(...): the innermost open block of the object ends, if there
\* is one; nothing in __exit__ looks at what was entered
CaptureExit(k) ==
  /\ io.pc = "run"
  /\ k \in 1..Len(io.objs)
  /\ LET i    == BlockOf(io.stack, k)
         rest == IF i = 0 THEN io.stack
                 ELSE SubSeq(io.stack, 1, i - 1) \o SubSeq(io.stack, i + 1, Len(io.stack))
     IN
     CaptureStep([DoCaptureExit(io, k) EXCEPT
       !.objs[k].st = IF BlockOf(rest, k) # 0 THEN "active"
                      ELSE IF i # 0 THEN "exited" ELSE @,
       !.stack = rest,
       !.last = [CaptureNoCall EXCEPT
                   !.op = "exit", !.obj = k,
                   !.pre = IF i # 0 THEN io.stack[i].pre ELSE NoStreams]])

\* the program writes a text, a native str or a unicode text, to sys.stdout
\* or sys.stderr; the texts written are numbered, and a text that was
\* written is noted in the window of every object that has a `with` block
\* open
SysWrite(n, native) ==
  /\ io.pc = "run"
  /\ io.written < MaxTexts
  /\ LET t   == io.written + 1
         err == WriteError(io, n, native)
     IN
     CaptureStep([DoSysWrite(io, n, t, native) EXCEPT
       !.written = IF err = "ok" THEN t ELSE @,
       !.objs = [k \in 1..Len(io.objs) |->
                   IF io.objs[k].st = "active" /\ err = "ok"
                   THEN [io.objs[k] EXCEPT !.win[n] = Append(@, t)]
                   ELSE io.objs[k]],
       !.last = [CaptureNoCall EXCEPT !.op = "write", !.name = n, !.err = err]])

\* get_stdout() / get_stderr()
GetOutput(k, n) ==
  /\ io.pc = "run"
  /\ k \in 1..Len(io.objs)
  /\ LET r == DoGetOutput(io, k, n) IN
     CaptureStep([io EXCEPT
       !.last = [CaptureNoCall EXCEPT !.op = "get", !.obj = k, !.name = n,
                                      !.err = r.err, !.res = r.res]])

InitCapture ==
  /\ NoFiles
  /\ vcs = VcsIdle
  /\ hs = HarnessIdle
  /\ td = TempDirIdle
  /\ \E py \in Interpreters : io = CaptureStart(py)

\* The program uses the objects in `with` blocks, which end innermost
\* first; a block can be opened on an object that has one open, or had one.
NextCapture ==
  \/ \E loaded \in BOOLEAN, stdout \in BOOLEAN, stderr \in BOOLEAN,
        file \in BOOLEAN :
       CaptureConstruct(loaded, stdout, stderr, file)
  \/ \E k \in 1..MaxCaptures : CaptureEnter(k)
  \/ \E k \in 1..MaxCaptures :
       io.pc = "run" /\ io.stack # <<>> /\ Head(io.stack).obj = k /\ CaptureExit(k)
  \/ \E n \in StreamNames, native \in BOOLEAN : SysWrite(n, native)
  \/ \E k \in 1..MaxCaptures, n \in StreamNames : GetOutput(k, n)

SpecCapture == InitCapture /\ [][NextCapture]_vars

\* ---- properties -----------------------------------------------------------
Target(p)  == FileState(names, data, TargetName(p))
Backup(p)  == FileState(names, data, BackupName(p))
EditFile(p) == FileState(names, data, NewName(p))
TargetAfter(p) == FileState(names', data', TargetName(p))

FilesAndRegistryUnchanged == UNCHANGED <<names, data, eds, reg, known>>

\* the modes, among those of the callers, that ask for reading only
\* ('r', 'U' and their variants without '+'): those that begin with 'r' or
\* 'U', and those that begin with 'b' or 't'
LeadingReadModes == { <<"r">>, <<"U">>, <<"r", "U">>, <<"r", "b">> }
ReadOnlyModes ==
  LeadingReadModes \cup { <<"b", "r">>, <<"t", "r">>, <<"b", "U">> }
\* the 'r+', 'a' and 'w' modes
UpdatingModes == { <<"r", "+">>, <<"a">>, <<"w">> }

\* what a file holding c holds after w was written through a handle that
\* stands at pos: what c holds up to pos (zeros past its end), w, and what c
\* holds past the end of w; an appending handle stands at the end of c
ExpectedEdit(c, app, pos, w) ==
  LET start == IF app THEN Len(c) ELSE pos IN
  [ i \in 1..start |-> IF i <= Len(c) THEN c[i] ELSE "0" ]
    \o w \o SubSeq(c, start + Len(w) + 1, Len(c))

\* C1: round trip.  When restore() is called on an editor whose scope was
\* entered and exited and that was not restored before, it returns normally
\* and the target is exactly as it was before the editor was constructed:
\* present with its original content, or absent.
C1_RoundTrip ==
  [][ \A e \in EditorIds :
        ( /\ e \in Editors
          /\ eds[e].scope = "out"
          /\ ~eds[e].restored
          /\ last'.op = "restore" /\ last'.ed = e )
        => ( /\ last'.err = "ok"
             /\ TargetAfter(eds[e].path) = eds[e].pre ) ]_vars

C1_Witness ==
  \E e \in Editors :
    /\ last.op = "restore" /\ last.ed = e /\ last.err = "ok" /\ ~last.noop
    /\ eds[e].scope = "out"
    /\ eds[e].pre.ex /\ eds[e].pre.c # <<>>
    /\ Target(eds[e].path) = eds[e].pre

\* what the edition file of e holds once its handle is closed: what it
\* holds and the text the handle has not written out yet, put where the
\* handle stands (at the end of the file for an appending handle)
EditAtExit(e) ==
  IF eds[e].h.open /\ eds[e].h.buf # <<>>
  THEN ExpectedEdit(EditFile(eds[e].path).c, eds[e].h.app, eds[e].h.pos,
                    eds[e].h.buf)
  ELSE EditFile(eds[e].path).c

\* C2: when a scope that was entered is exited, __exit__ returns normally,
\* the edition file no longer exists and the target exists and holds what
\* the edition file held, as modified by the text written during the scope.
C2_ExitInstallsEdit ==
  [][ \A e \in EditorIds :
        ( /\ e \in Editors
          /\ eds[e].scope = "in"
          /\ last'.op = "exit" /\ last'.ed = e )
        => ( /\ last'.err = "ok"
             /\ ~IsFile(names', NewName(eds[e].path))
             /\ TargetAfter(eds[e].path) =
                  [ex |-> TRUE, c |-> EditAtExit(e)] ) ]_vars

C2_Witness ==
  \E e \in Editors :
    /\ last.op = "exit" /\ last.ed = e /\ last.err = "ok"
    /\ ~IsFile(names, NewName(eds[e].path))
    /\ Target(eds[e].path).ex
    /\ "x" \in Range(Target(eds[e].path).c)
    /\ Len(Target(eds[e].path).c) > 1

\* C3: right after any restore() call that returned normally, the backup
\* file does not exist and the target is in its pre-edit state.
C3_RestoreYieldsPreEditState ==
  \A e \in Editors :
    (last.op = "restore" /\ last.ed = e /\ last.err = "ok")
    => ( /\ ~IsFile(names, BackupName(eds[e].path))
         /\ Target(eds[e].path) = eds[e].pre )

\* C4: the backup file of a path exists if and only if the editor of that
\* path has have_backup set and has not been restored.
C4_BackupIffHaveBackup ==
  \A p \in Paths :
    IsFile(names, BackupName(p))
    <=> \E e \in Editors :
          eds[e].path = p /\ eds[e].have_backup = "True" /\ ~eds[e].restored

C4_Witness ==
  \E e \in Editors :
    /\ eds[e].have_backup = "True" /\ eds[e].restored
    /\ eds[e].scope = "out"
    /\ ~IsFile(names, BackupName(eds[e].path))

\* C5: the edition file exists while the scope is active, and does not
\* exist once the scope has been exited or restore() has run.
C5_EditFileLifetime ==
  \A e \in Editors :
    /\ eds[e].scope = "in" => IsFile(names, NewName(eds[e].path))
    /\ (eds[e].scope = "out" \/ eds[e].restored)
         => ~IsFile(names, NewName(eds[e].path))

\* C6: restore() is idempotent.  A restore() that returns normally leaves
\* the editor marked restored, the mark is never taken back, and a restore()
\* call on an editor that is marked returns normally and changes no file,
\* no flag of any editor and no registry entry.
C6_RestoreIdempotent ==
  [][ \A e \in EditorIds :
        e \in Editors =>
          /\ (last'.op = "restore" /\ last'.ed = e /\ last'.err = "ok")
               => eds'[e].restored
          /\ eds[e].restored => eds'[e].restored
          /\ (eds[e].restored /\ last'.op = "restore" /\ last'.ed = e)
               => (last'.err = "ok" /\ FilesAndRegistryUnchanged) ]_vars

C6_Witness ==
  \E e \in Editors :
    /\ last.op = "restore" /\ last.ed = e /\ last.err = "ok" /\ last.noop
    /\ eds[e].restored
    /\ reg[<<eds[e].ctx, eds[e].path>>] \notin {0, e}

\* C7, as stated: constructing an editor for a registered (context, path)
\* fails with AlreadyBackedUp and changes no registry entry, no file and no
\* editor.
C7_Original ==
  [][ \A c \in Contexts, p \in Paths :
        ( /\ reg[<<c, p>>] # 0
          /\ last'.op = "construct" /\ last'.ctx = c /\ last'.path = p )
        => ( /\ last'.err = "AlreadyBackedUp"
             /\ FilesAndRegistryUnchanged ) ]_vars

\* C7, amended: constructing an editor for a registered (context, path)
\* fails, with InvalidArgument (ValueError) if the mode is one of the
\* read-only modes the validation rejects and with AlreadyBackedUp
\* otherwise, and changes no registry entry, no file and no editor.
C7_DuplicateRejected ==
  [][ \A c \in Contexts, p \in Paths :
        ( /\ reg[<<c, p>>] # 0
          /\ last'.op = "construct" /\ last'.ctx = c /\ last'.path = p )
        => ( /\ last'.err = IF last'.mode \in LeadingReadModes
                            THEN "ValueError" ELSE "AlreadyBackedUp"
             /\ FilesAndRegistryUnchanged ) ]_vars

C7_Witness ==
  /\ last.op = "construct" /\ last.err = "AlreadyBackedUp"
  /\ reg[<<last.ctx, last.path>>] # 0
  /\ eds[reg[<<last.ctx, last.path>>]].scope = "in"
  /\ IsFile(names, BackupName(last.path))
  /\ IsFile(names, NewName(last.path))

\* C8: a construction with a read-only, non-updating mode ('r', 'U' and
\* their variants without '+') raises ValueError, registers nothing and
\* changes no file, whether the target exists or not; a construction with an
\* 'r+', 'a' or 'w' mode never raises ValueError.
C8_ReadOnlyModeRejected ==
  [][ last'.op = "construct" =>
        /\ last'.mode \in ReadOnlyModes
             => (last'.err = "ValueError" /\ FilesAndRegistryUnchanged)
        /\ last'.mode \in UpdatingModes => last'.err # "ValueError" ]_vars

\* the part of C8 that holds: a mode that begins with 'r' or 'U' and has no
\* '+' is rejected before anything is registered or any file touched, and
\* the 'r+', 'a' and 'w' modes are not rejected
C8_LeadingReadModeRejected ==
  [][ last'.op = "construct" =>
        /\ last'.mode \in LeadingReadModes
             => (last'.err = "ValueError" /\ FilesAndRegistryUnchanged)
        /\ last'.mode \in UpdatingModes => last'.err # "ValueError" ]_vars

\* C9: entering an editor whose scope was entered before, and is active or
\* was exited, or on which __enter__ was called before at all, raises
\* IllegalReuse and changes no file and no editor flag.
C9_SingleUse ==
  [][ \A e \in EditorIds :
        ( /\ e \in Editors
          /\ (eds[e].scope \in {"in", "out"} \/ eds[e].entered)
          /\ last'.op = "enter" /\ last'.ed = e )
        => ( /\ last'.err = "IllegalReuse"
             /\ FilesAndRegistryUnchanged ) ]_vars

C9_Witness ==
  \E e \in Editors :
    /\ last.op = "enter" /\ last.ed = e /\ last.err = "IllegalReuse"
    /\ eds[e].scope = "in"
    /\ eds[e].h.buf # <<>>

\* C10: right after the scope is entered, the edition file holds the content
\* the target had when the editor was constructed if the mode pre-populates
\* and the target existed, and is empty otherwise.
C10_InitialEditContent ==
  \A e \in Editors :
    (last.op = "enter" /\ last.ed = e /\ last.err = "ok")
    => ( /\ EditFile(eds[e].path).ex
         /\ EditFile(eds[e].path).c =
              IF eds[e].pre.ex /\ eds[e].mode[1] \in {"a", "r"}
              THEN eds[e].pre.c ELSE <<>> )

\* the state of every file of path p
FilesOf(nm, d, p) == [ k \in Kinds |-> FileState(nm, d, <<p, k>>) ]

\* C11: when clear_context(c) returns normally, every editor that was
\* registered under c is marked restored and its target is as it was before
\* the editor was constructed, nothing is registered under c any more, the
\* editors and registrations of the other contexts are as they were, and
\* for a context the class does not know nothing has changed at all.
C11_ClearContext ==
  [][ \A c \in Contexts :
        (last'.op = "clear_context" /\ last'.ctx = c /\ last'.err = "ok")
        => ( /\ c \notin known => FilesAndRegistryUnchanged
             /\ \A p \in Paths :
                  reg[<<c, p>>] # 0
                  => ( /\ eds'[reg[<<c, p>>]].restored
                       /\ TargetAfter(p) = eds[reg[<<c, p>>]].pre )
             /\ \A p \in Paths : reg'[<<c, p>>] = 0
             /\ \A c2 \in Contexts \ {c}, p \in Paths :
                  /\ reg'[<<c2, p>>] = reg[<<c2, p>>]
                  /\ reg[<<c2, p>>] # 0
                       => eds'[reg[<<c2, p>>]] = eds[reg[<<c2, p>>]] ) ]_vars

\* C12: clear(c, p) with an editor registered at (c, p) does to the state
\* what restore() on that editor does, and leaves every other editor, every
\* other registry entry and the files of every other path as they were;
\* with no editor registered at (c, p), or c unknown, it raises and changes
\* no file, no editor and no registry entry.
C12_Clear ==
  [][ \A c \in Contexts, p \in Paths :
        (last'.op = "clear" /\ last'.ctx = c /\ last'.path = p)
        => IF c \notin known \/ reg[<<c, p>>] = 0
           THEN last'.err = "KeyError" /\ FilesAndRegistryUnchanged
           ELSE /\ last'.err # "KeyError"
                /\ ~eds[reg[<<c, p>>]].restored /\ last'.err = "ok"
                     => ( /\ eds'[reg[<<c, p>>]].restored
                          /\ reg'[<<c, p>>] = 0
                          /\ ~IsFile(names', BackupName(p)) )
                /\ \A e \in Editors \ {reg[<<c, p>>]} : eds'[e] = eds[e]
                /\ \A k \in (Contexts \X Paths) \ {<<c, p>>} : reg'[k] = reg[k]
                /\ \A p2 \in Paths \ {p} :
                     FilesOf(names', data', p2) = FilesOf(names, data, p2) ]_vars

C12_Witness ==
  /\ last.op = "clear" /\ last.err = "ok" /\ ~last.noop
  /\ Len(eds) = 2
  /\ eds[1].path = last.path /\ eds[1].ctx = last.ctx
  /\ eds[1].restored /\ eds[1].have_backup = "True"
  /\ Target(eds[1].path) = eds[1].pre
  /\ ~eds[2].restored /\ eds[2].scope = "out"
  /\ reg[<<eds[2].ctx, eds[2].path>>] = 2
  /\ Target(eds[2].path).ex

\* C13: when the scope of an editor ends, whether its body completed or
\* raised, __exit__ first closes the edition file and then renames it onto
\* the target, in this order and nothing else; it raises nothing itself,
\* and the exception of the body, if any, propagates to the caller.
C13_ExitCleanup ==
  [][ \A e \in EditorIds :
        ( /\ e \in Editors
          /\ eds[e].scope = "in"
          /\ last'.op = "exit" /\ last'.ed = e )
        => ( /\ last'.calls =
                  << <<"close", NewName(eds[e].path), NewName(eds[e].path)>>,
                     <<"rename", NewName(eds[e].path), TargetName(eds[e].path)>> >>
             /\ ~eds'[e].h.open
             /\ ~IsFile(names', NewName(eds[e].path))
             /\ IsFile(names', TargetName(eds[e].path))
             /\ last'.err = "ok"
             /\ Propagates(last'.body, last'.res) <=> last'.body # "none" ) ]_vars

C13_Witness ==
  \E e \in Editors :
    /\ last.op = "exit" /\ last.ed = e /\ last.err = "ok"
    /\ last.body = "BodyError" /\ Propagates(last.body, last.res)
    /\ eds[e].have_backup = "True"
    /\ ~eds[e].h.open
    /\ "x" \in Range(Target(eds[e].path).c)
    /\ ~IsFile(names, NewName(eds[e].path))

\* C14: a restore() call on an editor that was constructed and never
\* entered returns normally, and leaves the editor marked restored and not
\* registered.
C14_RestoreBeforeEntry ==
  \A e \in Editors :
    (last.op = "restore" /\ last.ed = e /\ eds[e].scope = "new")
    => ( /\ last.err = "ok"
         /\ eds[e].restored
         /\ reg[<<eds[e].ctx, eds[e].path>>] # e )

\* ---- vcs_ssh: the handlers and main ----------------------------------------
GitDone == vcs.pc = "done" /\ vcs.fn = "git_handle"
HgDone == vcs.pc = "done" /\ vcs.fn = "hg_handle"
MainDone == vcs.pc = "done" /\ vcs.fn = "main"

\* the request of a finished git_handle call is allowed: its repository is
\* listed and it is no push to a read-only repository
GitAllowed ==
  LET repo == Normalize(vcs.argv[2]) IN
  /\ repo \in vcs.rw \cup vcs.ro
  /\ ~(vcs.argv[1] = Word("git-receive-pack") /\ repo \in vcs.ro)

\* git_handle rejected with 255 and started no subprocess
GitRejected ==
  /\ vcs.out.exc = "none" /\ vcs.out.result = 255 /\ vcs.out.popen = <<>>

\* git_handle started the command with the normalized path, once, and
\* returned the status of the subprocess
GitDispatched ==
  /\ vcs.out.exc = "none"
  /\ vcs.out.popen = << <<vcs.argv[1], Normalize(vcs.argv[2])>> >>
  /\ vcs.out.result = vcs.status

\* C15 (as stated): git_handle dispatches only if the normalized repository
\* is listed and the command is no push to a read-only repository; a push to
\* a read-only repository and a command on an unlisted repository return
\* 255 without dispatching; every other command is dispatched with the
\* normalized path and the status of the subprocess is returned.
C15_Original ==
  GitDone =>
    /\ vcs.out.popen # <<>> => GitAllowed
    /\ ~GitAllowed => GitRejected
    /\ GitAllowed => GitDispatched

\* C15 (amended): the statement holds when the git program is found on PATH;
\* when it is not, git_handle returns 254 whatever the repository is and
\* dispatches nothing.
C15_GitAccessControl ==
  GitDone =>
    LET found == vcs.argv[1] \in vcs.installed IN
    /\ vcs.out.popen # <<>> => GitAllowed /\ found
    /\ found /\ ~GitAllowed => GitRejected
    /\ found /\ GitAllowed => GitDispatched
    /\ ~found => /\ vcs.out.exc = "none" /\ vcs.out.result = 254
                 /\ vcs.out.popen = <<>>

\* a fetch from a read-only repository given by a path that is not in normal
\* form was dispatched, and a push to it is one of the requests
C15_Witness ==
  /\ GitDone
  /\ vcs.argv[1] = Word("git-upload-pack")
  /\ Normalize(vcs.argv[2]) \in vcs.ro
  /\ Normalize(vcs.argv[2]) # vcs.argv[2]
  /\ GitDispatched

\* the rewritten command hg_handle gives to hg_dispatch for a repository
HgServe(repo) == << <<"-R">>, repo, <<"serve">>, <<"--stdio">> >>

\* both push-rejecting hooks are options of the command
HasBothHooks(cmd) ==
  /\ \E i \in 1..(Len(cmd) - 1) :
       /\ cmd[i] = <<"--config">>
       /\ cmd[i + 1] = <<"hooks.prechangegroup.hg-ssh=python:vcs_ssh.rejectpush">>
  /\ \E i \in 1..(Len(cmd) - 1) :
       /\ cmd[i] = <<"--config">>
       /\ cmd[i + 1] = <<"hooks.prepushkey.hg-ssh=python:vcs_ssh.rejectpush">>

\* hg_dispatch was called once, with the rewritten command, whose hooks are
\* there exactly when the repository is read-only
HgDispatched ==
  LET repo == Normalize(vcs.argv[3]) IN
  /\ Len(vcs.out.hgcalls) = 1
  /\ SubSeq(vcs.out.hgcalls[1], 1, 4) = HgServe(repo)
  /\ repo \in vcs.ro => HasBothHooks(vcs.out.hgcalls[1])
  /\ repo \notin vcs.ro => vcs.out.hgcalls[1] = HgServe(repo)

HgListed == Normalize(vcs.argv[3]) \in vcs.rw \cup vcs.ro

\* C16 (as stated): hg_handle dispatches '-R <repo> serve --stdio' if and
\* only if the normalized repository is in rw_dirs or ro_dirs, with both
\* push-rejecting hooks whenever it is in ro_dirs; when it is in neither
\* list it returns 255 and hg_dispatch is never called.
C16_Original ==
  HgDone =>
    /\ vcs.out.hgcalls # <<>> <=> HgListed
    /\ vcs.out.hgcalls # <<>> => HgDispatched
    /\ ~HgListed => /\ vcs.out.exc = "none" /\ vcs.out.result = 255
                    /\ vcs.out.hgcalls = <<>>

\* C16 (amended): the statement holds when the hg program is found on PATH;
\* when it is not, hg_handle returns 254 whatever the repository is and
\* hg_dispatch is never called.
C16_HgAccessControl ==
  HgDone =>
    LET found == vcs.argv[1] \in vcs.installed IN
    /\ vcs.out.hgcalls # <<>> <=> (HgListed /\ found)
    /\ vcs.out.hgcalls # <<>> => HgDispatched
    /\ found /\ ~HgListed => /\ vcs.out.exc = "none" /\ vcs.out.result = 255
                             /\ vcs.out.hgcalls = <<>> /\ vcs.out.popen = <<>>
    /\ ~found => /\ vcs.out.exc = "none" /\ vcs.out.result = 254
                 /\ vcs.out.hgcalls = <<>> /\ vcs.out.popen = <<>>

\* a repository listed in both lists was served, with the hooks
C16_Witness ==
  /\ HgDone
  /\ Normalize(vcs.argv[3]) \in vcs.ro \cap vcs.rw
  /\ HgDispatched
  /\ Len(vcs.out.hgcalls[1]) = 8

\* the recognized forms of SSH_ORIGINAL_COMMAND, read from its words
MainArgv == ShlexSplit(OrigCmd(vcs.env))
IsHgForm(a) ==
  /\ Len(a) = 5 /\ a[1] = <<"hg">> /\ a[2] = <<"-R">>
  /\ a[4] = <<"serve">> /\ a[5] = <<"--stdio">>
IsGitForm(a) ==
  Len(a) = 2 /\ a[1] \in { <<"git-receive-pack">>, <<"git-upload-pack">> }
IsBzrForm(a) ==
  a = << <<"bzr">>, <<"serve">>, <<"--inet">>, <<"--directory=", "">>,
         <<"--allow-writes">> >>
IsSvnForm(items) == items = << <<"svnserve">>, <<" ">>, <<"-t">> >>

Recognized ==
  /\ MainArgv.ok
  /\ \/ IsHgForm(MainArgv.argv) \/ IsGitForm(MainArgv.argv)
     \/ IsBzrForm(MainArgv.argv) \/ IsSvnForm(OrigCmd(vcs.env))

\* what the handler of a recognized form does with the words of the command
HandlerOutcome ==
  LET a == MainArgv.argv IN
  IF IsHgForm(a) THEN HgHandle(a, vcs.rw, vcs.ro, vcs.installed, vcs.status)
  ELSE IF IsGitForm(a)
  THEN GitHandle(a, vcs.rw, vcs.ro, vcs.installed, vcs.status)
  ELSE IF IsBzrForm(a)
  THEN BzrHandle(a, vcs.rw, vcs.ro, vcs.installed, vcs.status)
  ELSE PipeDispatch(a, vcs.installed, vcs.status)

\* C17: for every SSH_ORIGINAL_COMMAND that is no recognized form (unset,
\* empty, blank, unbalanced quotes, extra arguments, anything else) main
\* returns 255 and calls no handler and no subprocess; for a recognized form
\* it returns what the selected handler returns.
C17_MainRejects ==
  MainDone =>
    IF Recognized
    THEN /\ vcs.out.handler # "none"
         /\ [vcs.out EXCEPT !.handler = "none"] = HandlerOutcome
    ELSE /\ vcs.out.exc = "none" /\ vcs.out.result = 255
         /\ vcs.out.handler = "none"
         /\ vcs.out.hgcalls = <<>> /\ vcs.out.popen = <<>>

\* ---- ssh_harness: known hosts and teardown ---------------------------------
\* _update_user_known_hosts has just returned
Scanned == hs.pc = "scanned" /\ hs.exc = "none" /\ Len(hs.scans) = 2

\* the scan for IPv4 (i = 1) or IPv6 (i = 2) exited non-zero or printed nothing
FailedScan(i) == hs.scans[i].rc # 0 \/ hs.scans[i].out = ""

\* what the scan i adds to the known-hosts file
Appended(i) == IF FailedScan(i) THEN <<>> ELSE <<hs.scans[i].out>>

KnownHosts == FileState(names, data, TargetName(KnownHostsPath))

\* C18: _update_user_known_hosts records an error under its own name if and
\* only if both the IPv4 and the IPv6 scan failed (non-zero exit or empty
\* output); the known-hosts file holds what it held before, followed by the
\* output of the IPv4 scan if it succeeded, then that of the IPv6 scan if it
\* succeeded, and nothing for a failed scan.
C18_KnownHostsErrors ==
  Scanned =>
    /\ "_update_user_known_hosts" \in hs.recorded <=> (FailedScan(1) /\ FailedScan(2))
    /\ "_update_user_known_hosts" \in hs.errors <=> (FailedScan(1) /\ FailedScan(2))
    /\ KnownHosts.ex
    /\ KnownHosts.c = hs.pre[KnownHostsPath].c \o Appended(1) \o Appended(2)

\* the IPv4 scan exited with 0 but printed nothing, the IPv6 scan succeeded:
\* its output follows the former content and no error is recorded
C18_Witness ==
  /\ Scanned
  /\ hs.scans[1] = [rc |-> 0, out |-> ""]
  /\ hs.scans[2] = [rc |-> 0, out |-> "6"]
  /\ hs.pre[KnownHostsPath] = [ex |-> TRUE, c |-> <<"a", "b">>]
  /\ KnownHosts.c = <<"a", "b", "6">>
  /\ hs.errors = {}

\* tearDownClass has run, at the end of the tests or within _skip: it was
\* called and returned or raised (hs.torn), or the run ended as one that
\* calls it does
TornDown == hs.torn \/ hs.pc \in {"skipped", "down"}

\* C19: once tearDownClass has run - after a setUpClass that returned, or
\* within _skip at whatever step setUpClass was abandoned, and whether it
\* returned or raised - every file of the user is as it was when setUpClass
\* began and no editor is registered under the context of the harness.
C19_TearDownRestores ==
  TornDown =>
    \A p \in Paths :
      /\ FileState(names, data, TargetName(p)) = hs.pre[p]
      /\ reg[<<"c1", p>>] = 0

\* setUpClass edited the three files, two of which existed, and was skipped
\* at its end because both scans failed: the files are back
C19_Witness ==
  /\ hs.pc = "skipped"
  /\ hs.edited = {"p", "q", "s"}
  /\ hs.errors = {"_update_user_known_hosts"}
  /\ hs.pre["p"].ex /\ hs.pre["s"].ex /\ ~hs.pre["q"].ex
  /\ \A p \in Paths : FileState(names, data, TargetName(p)) = hs.pre[p]

\* ---- InThrowableTempDir ----------------------------------------------------
\* C20: after a `with` block on the object has ended - its body completed or
\* raised, the object entered once or recursively - the current directory is
\* the one that was current when the object was first entered, the
\* temporary directory does not exist, and an exception of the body
\* propagates: __exit__ raises nothing itself and returns a false value.
C20_TempDirScope ==
  td.last.op = "exit" =>
    /\ td.cwd = td.first
    /\ ~td.temp
    /\ td.last.body # "none" => (td.last.err = "ok" /\ ~Truthy(td.last.res))

\* ---- C21 ------------------------------------------------------------------
\* a call of get_stdout() / get_stderr() has just been made
GotOutput == io.pc = "run" /\ io.last.op = "get"

\* C21: get_stdout() / get_stderr() on a captured stream raises RuntimeError
\* whenever the `with` block of the object is open; after the block it
\* returns exactly the texts written to the stream while the block was open;
\* on a stream that is not captured it returns the empty string; and when
\* the block ends the stream in place when it began is put back.
C21_CaptureWindow ==
  /\ GotOutput =>
       LET o == io.objs[io.last.obj]
           n == io.last.name
       IN /\ ~o.do[n] => (io.last.err = "ok" /\ io.last.res = <<>>)
          /\ (o.do[n] /\ o.st = "active") => io.last.err = "RuntimeError"
          /\ (o.do[n] /\ o.st = "exited") =>
               (io.last.err = "ok" /\ io.last.res = o.win[n])
  /\ (io.pc = "run" /\ io.last.op = "exit") =>
       \A n \in StreamNames :
         io.objs[io.last.obj].do[n] => io.cur[n] = io.last.pre[n]

\* ---- C22 ------------------------------------------------------------------
\* C22: edits appear atomic.  A construction, a scope entry and a call of
\* a method of the handle (a write or any other) leave the existence and the
\* content of every target as they were; the handle a write goes through is
\* open on the edition file, and the write changes no file name.
C22_EditsAtomic ==
  [][ /\ last'.op \in {"construct", "enter"} \cup FileMethods
        => \A p \in Paths : TargetAfter(p) = Target(p)
      /\ (last'.op = "write" /\ last'.err = "ok")
        => /\ names' = names
           /\ eds[last'.ed].h.ino = names[NewName(eds[last'.ed].path)]
           /\ eds[last'.ed].h.ino # names[TargetName(eds[last'.ed].path)] ]_vars

\* a write was made in a scope entered on an existing target, which is as
\* it was before the editor was constructed while the text is in the handle
C22_Witness ==
  \E e \in Editors :
    /\ last.op = "write" /\ last.ed = e
    /\ eds[e].scope = "in"
    /\ eds[e].h.buf # <<>>
    /\ eds[e].pre.ex /\ eds[e].pre.c # <<>>
    /\ Target(eds[e].path) = eds[e].pre
    /\ IsFile(names, NewName(eds[e].path))

\* ---- C23 ------------------------------------------------------------------
BackupAfter(p) == FileState(names', data', BackupName(p))

\* C23: the backup is never altered.  A scope entry on an existing target
\* leaves in the backup file the content the target has at that moment, and
\* from then on no step other than the restore() of the editor changes the
\* existence or the content of the backup file.
C23_BackupUnaltered ==
  [][ \A e \in EditorIds :
        e \in Editors =>
          /\ ( /\ last'.op = "enter" /\ last'.ed = e /\ last'.err = "ok"
               /\ Target(eds[e].path).ex )
             => ( /\ eds'[e].have_backup = "True"
                  /\ BackupAfter(eds[e].path) = Target(eds[e].path) )
          /\ ( /\ eds[e].have_backup = "True" /\ ~eds[e].restored
               /\ ~(last'.op = "restore" /\ last'.ed = e) )
             => BackupAfter(eds[e].path) = Backup(eds[e].path) ]_vars

\* the scope was exited after a write, the target holds the edit and the
\* backup still holds what the target held when the scope was entered
C23_Witness ==
  \E e \in Editors :
    /\ last.op = "exit" /\ last.ed = e /\ last.err = "ok"
    /\ eds[e].have_backup = "True" /\ ~eds[e].restored
    /\ eds[e].pre.c # <<>>
    /\ Backup(eds[e].path) = eds[e].pre
    /\ Target(eds[e].path).ex
    /\ Target(eds[e].path) # eds[e].pre

\* ---- C24 ------------------------------------------------------------------
\* the (context, path) pairs that are registered
RegisteredKeys(r) == { k \in Contexts \X Paths : r[k] # 0 }

\* C24: registration is immediate and failure-safe.  A construction that
\* returns has registered its (context, path) for the new editor, whose
\* scope is not entered yet; a construction that raises leaves the set of
\* registered (context, path) pairs as it was.
C24_RegistrationFailureSafe ==
  [][ last'.op = "construct" =>
        IF last'.err = "ok"
        THEN /\ reg'[<<last'.ctx, last'.path>>] = last'.ed
             /\ ~eds'[last'.ed].entered
        ELSE RegisteredKeys(reg') = RegisteredKeys(reg) ]_vars

\* C25: _move(src, dst) first attempts the rename; only if it fails does it
\* delete dst and attempt the rename again, once; it makes no other call.
\* When it returns, dst is the file src was and src no longer exists; when
\* it raises, src is as it was before the call.
C25_MoveDiscipline ==
  [][ last'.op = "move" =>
        LET src == last'.src
            dst == last'.dst
            k   == last'.calls
            firstFails == ~IsFile(names, src) \/ 1 \in last'.faults
        IN
        /\ Len(k) \in 1..3
        /\ k[1] = <<"rename", src, dst>>
        /\ Len(k) > 1 <=> firstFails
        /\ Len(k) > 1 => k[2] = <<"remove", dst, dst>>
        /\ Len(k) > 2 => k[3] = <<"rename", src, dst>>
        /\ Len(k) = 3 <=> (firstFails /\ IsFile(names, dst) /\ 2 \notin last'.faults)
        /\ last'.err = "ok" =>
             /\ IsFile(names, src)
             /\ names'[dst] = names[src]
             /\ FileState(names', data', dst) = FileState(names, data, src)
             /\ ~IsFile(names', src)
        /\ last'.err # "ok" =>
             /\ names'[src] = names[src]
             /\ FileState(names', data', src) = FileState(names, data, src) ]_vars

\* a move that failed for good after the fallback deleted dst: the source is
\* still there with its content
C25_Witness ==
  /\ last.op = "move"
  /\ last.err = "OSError"
  /\ Len(last.calls) = 3
  /\ FileState(names, data, last.src).c = <<"a", "b">>
  /\ ~IsFile(names, last.dst)

\* C26: _start_sshd reports a start-up failure (the process is terminated,
\* _SSHD is None again, an error is recorded under SSHD_BIN and the suite is
\* skipped) if and only if the pid file was there on none of its polls; if
\* the pid file was there on one of the polls, the last one included, the
\* handle is kept and no error is recorded.
SshdFailureReported ==
  /\ ~hs.handle /\ ~hs.sshd
  /\ SshdKey \in hs.recorded /\ SshdKey \in hs.errors
  /\ hs.pc = "skipped"

C26_StartSshdOutcome ==
  last.op = "start_sshd" =>
    /\ SshdFailureReported <=> last.first > Polls
    /\ last.first <= Polls =>
         hs.handle /\ SshdKey \notin hs.errors /\ hs.pc = "started"

\* C27: in every reachable state the registry maps (context, path) to an
\* editor exactly for the editors whose construction completed and whose
\* restore() has not completed: every such editor is registered under its
\* own key, every registered key maps to such an editor, constructed for
\* that key, and no call ended with one of the errors of _unregister.
Live(e) == e \in Editors /\ eds[e].scope # "lost" /\ ~eds[e].restored

C27_RegistryConsistent ==
  /\ \A e \in Editors : Live(e) => reg[<<eds[e].ctx, eds[e].path>>] = e
  /\ \A k \in Contexts \X Paths :
       reg[k] # 0 => Live(reg[k]) /\ <<eds[reg[k]].ctx, eds[reg[k]].path>> = k
  /\ last.err \notin UnregisterErrors

\* C28: two editors of one target under two contexts do not corrupt each
\* other: no restore() raises, and once both are restored the target is in
\* the state it had before the first of them was constructed, with no
\* backup file and no edition file left.
BothRestored ==
  /\ Len(eds) = 2
  /\ eds[1].ctx # eds[2].ctx /\ eds[1].path = eds[2].path
  /\ eds[1].restored /\ eds[2].restored

C28_ContextsIsolated ==
  /\ last.op = "restore" => last.err = "ok"
  /\ BothRestored =>
       /\ Target(eds[1].path) = eds[1].pre
       /\ ~Backup(eds[1].path).ex
       /\ ~EditFile(eds[1].path).ex

\* C29: when restore() of one editor registered in the context raises
\* during clear_context, the same call still restores and deregisters every
\* other editor of the context: an editor it leaves registered is one whose
\* own restore() raises.
StateAfter ==
  [names |-> names', data |-> data', eds |-> eds', reg |-> reg', known |-> known']

C29_ClearContextRobust ==
  [][ (last'.op = "clear_context" /\ last'.err # "ok") =>
        \A e \in Editors :
          (eds[e].ctx = last'.ctx /\ reg'[<<eds[e].ctx, eds[e].path>>] = e)
            => \A py \in Interpreters :
                 DoRestore(StateAfter, py, e).err # "ok" ]_vars

\* ---- vcs_ssh: a repository listed in both lists ----------------------------
\* the words of the request a finished call handled, and the handler
ReqArgv == IF vcs.fn = "main" THEN MainArgv.argv ELSE vcs.argv
HandledBy(h, fn) ==
  vcs.pc = "done" /\ (vcs.fn = fn \/ (vcs.fn = "main" /\ vcs.out.handler = h))
InBothLists(repo) == repo \in vcs.rw \cap vcs.ro

\* no push was given to git, and no hg command without the hooks, for a
\* repository of ro_dirs
NoWriteToReadOnly ==
  /\ \A i \in 1..Len(vcs.out.popen) :
       vcs.out.popen[i][1] = Word("git-receive-pack")
         => vcs.out.popen[i][2] \notin vcs.ro
  /\ \A i \in 1..Len(vcs.out.hgcalls) :
       vcs.out.hgcalls[i][2] \in vcs.ro => HasBothHooks(vcs.out.hgcalls[i])

\* what the two handlers do for a repository listed in both lists, rc being
\* the value a rejected push returns
ReadOnlyWinsWith(rc) ==
  /\ HandledBy("git", "git_handle") =>
       /\ NoWriteToReadOnly
       /\ ( /\ InBothLists(Normalize(ReqArgv[2]))
            /\ ReqArgv[1] = Word("git-receive-pack") )
          => ( /\ vcs.out.exc = "none" /\ vcs.out.popen = <<>>
               /\ vcs.out.result = rc )
  /\ HandledBy("hg", "hg_handle") =>
       /\ NoWriteToReadOnly
       /\ InBothLists(Normalize(ReqArgv[3])) =>
            \A i \in 1..Len(vcs.out.hgcalls) :
              /\ SubSeq(vcs.out.hgcalls[i], 1, 4) = HgServe(Normalize(ReqArgv[3]))
              /\ HasBothHooks(vcs.out.hgcalls[i])

\* C30 (as stated): when a repository is listed in both rw_dirs and ro_dirs
\* the read-only restriction applies: git_handle rejects git-receive-pack
\* with 255 without dispatching, hg_handle dispatches only with the
\* push-rejecting hooks, and no accepted command writes to a repository of
\* ro_dirs.
C30_Original == ReadOnlyWinsWith(Rejected)

\* C30 (amended): the statement holds with the value git_handle returns for
\* the rejected push being 255 when the git program is found on PATH and
\* 254 when it is not; in both cases nothing is dispatched.
C30_ReadOnlyWins ==
  ReadOnlyWinsWith(IF vcs.pc = "done" /\ ReqArgv # <<>> /\ ReqArgv[1] \in vcs.installed
                   THEN Rejected ELSE CommandNotFound)

\* main was given a push to a repository listed in both lists, by a path
\* that is not in normal form, found git and rejected the push
C30_Witness ==
  /\ vcs.pc = "done" /\ vcs.fn = "main" /\ vcs.out.handler = "git"
  /\ ReqArgv[1] = Word("git-receive-pack")
  /\ ReqArgv[1] \in vcs.installed
  /\ ReqArgv[2] # Normalize(ReqArgv[2])
  /\ InBothLists(Normalize(ReqArgv[2]))
  /\ vcs.out.result = Rejected /\ vcs.out.popen = <<>>

====
